---- MODULE Spec2Model ----
(***************************************************************************)
(* A model of the cog compiler: lexer (src/src/lexer.ts), parser           *)
(* (src/unnamed/part_001, parser.ts), code generator (src/src/codegen.ts)  *)
(* and the compile pipeline (src/unnamed/part_001, compiler.ts).           *)
(*                                                                         *)
(* Text is modelled as a sequence of fragments: source text and token      *)
(* values are sequences of one-character strings, generated text is a      *)
(* sequence of fragments whose concatenation is \o.  JavaScript array      *)
(* indices are kept 0-based: index j of the code is element j + 1 here.    *)
(***************************************************************************)
EXTENDS Integers, Sequences, FiniteSets, TLC

VARIABLES src, tokens, cursor, stage, ast, out, err, options

vars == <<src, tokens, cursor, stage, ast, out, err, options>>

\* The JavaScript values null and undefined where the model needs them.
Null == "null"

NoText == <<>>

(***************************************************************************)
(* Tokens (lexer.ts)                                                       *)
(***************************************************************************)

\* enum TokenType: the members, by name.
TokenType ==
  { "Func", "Identifier", "LBrace", "RBrace", "LParen", "RParen", "LBracket",
    "RBracket", "String", "Number", "Comma", "Colon", "Assign", "Plus",
    "Minus", "Asterisk", "ForwardSlash", "Range", "Equal", "NotEqual",
    "LessThan", "LessThanEqual", "GreaterThan", "GreaterThanEqual", "Type",
    "Return", "Let", "True", "False", "And", "Or", "If", "ElseIf", "Else",
    "For", "It", "In", "Break", "Skip", "Defer", "EOF" }

\* TokenType.Match is read by the parser but is no member of the enum: the
\* property access yields undefined, which equals no token's type.
TokenTypeMatch == "undefined"

\* interface Token { type, value? }; a token without a value carries <<>>.
Token(type, value) == [type |-> type, value |-> value]

T(type) == Token(type, NoText)

\* What tokens[i] yields for an index outside the array.
Undefined == [type |-> "undefined", value |-> NoText]

tokenToString(tokenType) ==
  CASE tokenType = "Func" -> "func"
    [] tokenType = "Identifier" -> "identifier"
    [] tokenType = "LBrace" -> "lbrace"
    [] tokenType = "RBrace" -> "rbrace"
    [] tokenType = "LParen" -> "lparen"
    [] tokenType = "RParen" -> "rparen"
    [] tokenType = "LBracket" -> "lbracket"
    [] tokenType = "RBracket" -> "rbracket"
    [] tokenType = "String" -> "string"
    [] tokenType = "Number" -> "number"
    [] tokenType = "Comma" -> "comma"
    [] tokenType = "Colon" -> "colon"
    [] tokenType = "Assign" -> "assign"
    [] tokenType = "Plus" -> "plus"
    [] tokenType = "Minus" -> "minus"
    [] tokenType = "Asterisk" -> "asterisk"
    [] tokenType = "ForwardSlash" -> "forward_slash"
    [] tokenType = "Range" -> "range"
    [] tokenType = "Equal" -> "equal"
    [] tokenType = "NotEqual" -> "not_equal"
    [] tokenType = "LessThan" -> "less_than"
    [] tokenType = "LessThanEqual" -> "less_than_or_equal"
    [] tokenType = "GreaterThan" -> "greater_than"
    [] tokenType = "GreaterThanEqual" -> "greater_than_or_equal"
    [] tokenType = "Type" -> "type"
    [] tokenType = "Return" -> "return"
    [] tokenType = "Let" -> "let"
    [] tokenType = "True" -> "true"
    [] tokenType = "False" -> "false"
    [] tokenType = "And" -> "and"
    [] tokenType = "Or" -> "or"
    [] tokenType = "EOF" -> "eof"
    [] tokenType = "If" -> "if"
    [] tokenType = "ElseIf" -> "else if"
    [] tokenType = "Else" -> "else"
    [] tokenType = "For" -> "for"
    [] tokenType = "It" -> "it"
    [] tokenType = "In" -> "in"
    [] tokenType = "Break" -> "break;"
    [] tokenType = "Skip" -> "skip"
    [] tokenType = "Defer" -> "defer"
    [] OTHER -> "unknown"

(***************************************************************************)
(* lex (lexer.ts).  The source text is the array of its characters.        *)
(***************************************************************************)

\* The words of the keyword table, as character arrays.
W_string == <<"s", "t", "r", "i", "n", "g">>
W_i32 == <<"i", "3", "2">>
W_bool == <<"b", "o", "o", "l">>
W_void == <<"v", "o", "i", "d">>
W_func == <<"f", "u", "n", "c">>
W_return == <<"r", "e", "t", "u", "r", "n">>
W_let == <<"l", "e", "t">>
W_true == <<"t", "r", "u", "e">>
W_false == <<"f", "a", "l", "s", "e">>
W_and == <<"a", "n", "d">>
W_or == <<"o", "r">>
W_if == <<"i", "f">>
W_elif == <<"e", "l", "i", "f">>
W_else == <<"e", "l", "s", "e">>
W_for == <<"f", "o", "r">>
W_it == <<"i", "t">>
W_in == <<"i", "n">>
W_break == <<"b", "r", "e", "a", "k">>
W_skip == <<"s", "k", "i", "p">>
W_defer == <<"d", "e", "f", "e", "r">>

\* chars[i]; undefined, which equals no character, outside the array.
CharAt(chars, i) ==
  IF i >= 0 /\ i < Len(chars) THEN chars[i + 1] ELSE "undefined"

\* chars.slice(start, end).join('')
Slice(chars, start, end) == SubSeq(chars, start + 1, end)

LowerCase ==
  { "a", "b", "c", "d", "e", "f", "g", "h", "i", "j", "k", "l", "m", "n", "o",
    "p", "q", "r", "s", "t", "u", "v", "w", "x", "y", "z" }

UpperCase ==
  { "A", "B", "C", "D", "E", "F", "G", "H", "I", "J", "K", "L", "M", "N", "O",
    "P", "Q", "R", "S", "T", "U", "V", "W", "X", "Y", "Z" }

Digit == {"0", "1", "2", "3", "4", "5", "6", "7", "8", "9"}

isWhitespace(ch) == ch \in {" ", "\n", "\r", "\t"}

isCharacter(ch) == ch \in LowerCase \cup UpperCase \cup Digit \cup {"_"}

isDigit(ch) == ch \in Digit

RECURSIVE skipWhitespace(_, _)
skipWhitespace(chars, i) ==
  IF i < Len(chars) /\ isWhitespace(CharAt(chars, i))
  THEN skipWhitespace(chars, i + 1)
  ELSE i

\* while (i < chars.length && isDigit(chars[i])) ++i
RECURSIVE skipDigits(_, _)
skipDigits(chars, i) ==
  IF i < Len(chars) /\ isDigit(CharAt(chars, i))
  THEN skipDigits(chars, i + 1)
  ELSE i

\* while (i < chars.length && isCharacter(chars[i])) ++i
RECURSIVE skipCharacters(_, _)
skipCharacters(chars, i) ==
  IF i < Len(chars) /\ isCharacter(CharAt(chars, i))
  THEN skipCharacters(chars, i + 1)
  ELSE i

\* A scan that stops where it starts.
StopsAtOnce_skipUntil(chars, i, stop) == i

\* while (i < chars.length && chars[i] !== stop) ++i
RECURSIVE skipUntil(_, _, _)
skipUntil(chars, i, stop) ==
  IF i < Len(chars) /\ CharAt(chars, i) # stop
  THEN skipUntil(chars, i + 1, stop)
  ELSE i

\* The token pushed for a run of identifier characters.
wordToken(value) ==
  CASE value = W_func -> T("Func")
    [] value = W_string -> Token("Type", value)
    [] value = W_i32 -> Token("Type", value)
    [] value = W_bool -> Token("Type", value)
    [] value = W_void -> Token("Type", value)
    [] value = W_return -> T("Return")
    [] value = W_let -> T("Let")
    [] value = W_true -> T("True")
    [] value = W_false -> T("False")
    [] value = W_and -> T("And")
    [] value = W_or -> T("Or")
    [] value = W_if -> T("If")
    [] value = W_elif -> T("ElseIf")
    [] value = W_else -> T("Else")
    [] value = W_for -> T("For")
    [] value = W_it -> T("It")
    [] value = W_in -> T("In")
    [] value = W_break -> T("Break")
    [] value = W_skip -> T("Skip")
    [] value = W_defer -> T("Defer")
    [] OTHER -> Token("Identifier", value)

\* A character that stands for its own token.
punctuation(ch) ==
  CASE ch = "(" -> "LParen"
    [] ch = ")" -> "RParen"
    [] ch = "{" -> "LBrace"
    [] ch = "}" -> "RBrace"
    [] ch = "[" -> "LBracket"
    [] ch = "]" -> "RBracket"
    [] ch = "," -> "Comma"
    [] ch = ":" -> "Colon"
    [] ch = "+" -> "Plus"
    [] ch = "-" -> "Minus"
    [] ch = "*" -> "Asterisk"
    [] ch = "/" -> "ForwardSlash"
    [] OTHER -> Null

\* One iteration of lex's loop, from index i0: the index after the loop's own
\* ++i, and the tokens with what the iteration pushed.
lexStep(chars, i0, result) ==
  LET i == skipWhitespace(chars, i0)
      ch == CharAt(chars, i)
      next == CharAt(chars, i + 1)
      digitsEnd == skipDigits(chars, i)
      wordEnd == skipCharacters(chars, i)
      stringEnd == skipUntil(chars, i + 1, "'")
      two(type) == [i |-> i + 2, result |-> Append(result, T(type))]
      one(type) == [i |-> i + 1, result |-> Append(result, T(type))]
      none == [i |-> i + 1, result |-> result]
  IN  IF ch \in {"(", ")", "{", "}", "[", "]"} THEN one(punctuation(ch))
      ELSE IF isDigit(ch) THEN
        [i |-> digitsEnd,
         result |-> Append(result, Token("Number", Slice(chars, i, digitsEnd)))]
      ELSE IF isCharacter(ch) THEN
        [i |-> wordEnd,
         result |-> Append(result, wordToken(Slice(chars, i, wordEnd)))]
      ELSE IF ch = "'" THEN
        [i |-> stringEnd + 1,
         result |->
           Append(result, Token("String", Slice(chars, i + 1, stringEnd)))]
      ELSE IF ch \in {",", ":"} THEN one(punctuation(ch))
      ELSE IF ch = "=" THEN IF next = "=" THEN two("Equal") ELSE one("Assign")
      ELSE IF ch = "!" THEN IF next = "=" THEN two("NotEqual") ELSE none
      ELSE IF ch = "<"
        THEN IF next = "=" THEN two("LessThanEqual") ELSE one("LessThan")
      ELSE IF ch = ">"
        THEN IF next = "=" THEN two("GreaterThanEqual") ELSE one("GreaterThan")
      ELSE IF ch \in {"+", "-", "*", "/"} THEN one(punctuation(ch))
      ELSE IF ch = "." THEN IF next = "." THEN two("Range") ELSE none
      ELSE IF ch = "#" THEN
        [i |-> skipUntil(chars, i, "\n") + 1, result |-> result]
      ELSE none

\* for (let i = 0; i < chars.length; ++i) { ... }
RECURSIVE lexLoop(_, _, _)
lexLoop(chars, i, result) ==
  IF i < Len(chars)
  THEN LET step == lexStep(chars, i, result)
       IN  lexLoop(chars, step.i, step.result)
  ELSE result

\* The tokens without the push after the loop.
NoSentinel_lex(chars) == lexLoop(chars, 0, <<>>)

\* The token array lex hands to new TokenList.
lex(chars) == Append(lexLoop(chars, 0, <<>>), T("EOF"))

(***************************************************************************)
(* TokenList (lexer.ts): the token array and a cursor, -1 after            *)
(* construction.  pop and peek both return a token and may move the        *)
(* cursor, so each yields the pair [cur, tok].                             *)
(***************************************************************************)

\* this.tokens[i]
At(ts, i) == IF i >= 0 /\ i < Len(ts) THEN ts[i + 1] ELSE Undefined

pop(ts, c) ==
  LET c1 == IF c >= Len(ts) THEN Len(ts) - 1 ELSE c
  IN  [cur |-> c1 + 1, tok |-> At(ts, c1 + 1)]

peek(ts, c, pos) ==
  LET c1 == IF c >= Len(ts) THEN Len(ts) - 2 ELSE c
  IN  [cur |-> c1, tok |-> At(ts, c1 + pos)]

(***************************************************************************)
(* Parser (parser.ts).  A parsing function takes the token array and the   *)
(* cursor and yields [ok, cur, val, err]: ok with the cursor it leaves and *)
(* the value it returns, or not ok with the message of the Error thrown.   *)
(***************************************************************************)

Ok(c, v) == [ok |-> TRUE, cur |-> c, val |-> v, err |-> NoText]

Throw(c, msg) == [ok |-> FALSE, cur |-> c, val |-> Null, err |-> msg]

\* Reading .type of undefined: the engine throws a TypeError.
TypeError(c) == Throw(c, <<"TypeError">>)

\* throw new Error(`Expected X, got '${tokenToString(token.type)}'`), the
\* TypeError when the token read is undefined.
Expected(c, what, tok) ==
  IF tok = Undefined THEN TypeError(c)
  ELSE Throw(c, <<"Expected", what, "got", tokenToString(tok.type)>>)

Flat_OPERATOR_PRECEDENCE(op) == 100

OPERATOR_PRECEDENCE(op) ==
  CASE op = "Add" -> 100
    [] op = "Subtract" -> 100
    [] op = "Multiply" -> 120
    [] op = "Divide" -> 120
    [] op = "Range" -> 70
    [] op = "Equal" -> 50
    [] op = "NotEqual" -> 50
    [] op = "LessThan" -> 50
    [] op = "LessThanOrEqual" -> 50
    [] op = "GreaterThan" -> 50
    [] op = "GreaterThanOrEqual" -> 50
    [] op = "And" -> 25
    [] op = "Or" -> 25

\* enum Operator
Operator ==
  { "Add", "Subtract", "Multiply", "Divide", "Equal", "NotEqual", "LessThan",
    "LessThanOrEqual", "GreaterThan", "GreaterThanOrEqual", "And", "Or",
    "Range" }

\* interface Expression { type, data }
Expr(type, data) == [type |-> type, data |-> data]

BinaryOperation(op, left, right) ==
  Expr("binary-operation", [operator |-> op, left |-> left, right |-> right])

\* The switch of parseOperator: the Operator of a token type, null if none.
operatorData(type) ==
  CASE type = "Plus" -> "Add"
    [] type = "Minus" -> "Subtract"
    [] type = "Asterisk" -> "Multiply"
    [] type = "ForwardSlash" -> "Divide"
    [] type = "LessThan" -> "LessThan"
    [] type = "GreaterThan" -> "GreaterThan"
    [] type = "Equal" -> "Equal"
    [] type = "NotEqual" -> "NotEqual"
    [] type = "LessThanEqual" -> "LessThanOrEqual"
    [] type = "GreaterThanEqual" -> "GreaterThanOrEqual"
    [] type = "And" -> "And"
    [] type = "Or" -> "Or"
    [] type = "Range" -> "Range"
    [] OTHER -> Null

parseOperator(ts, c) ==
  LET pk == peek(ts, c, 1)
  IN  IF pk.tok = Undefined THEN TypeError(pk.cur)
      ELSE IF operatorData(pk.tok.type) # Null
        THEN Ok(pop(ts, pk.cur).cur, Expr("operator", operatorData(pk.tok.type)))
      ELSE Ok(pk.cur, Expr("operator", Null))

\* One reduction: pop an operator and two operands, push the operation.
reduce(stacks) ==
  LET ops == stacks.operatorStack
      nds == stacks.operandsStack
      op == ops[Len(ops)]
      right == nds[Len(nds)]
      left == nds[Len(nds) - 1]
  IN  [operatorStack |-> SubSeq(ops, 1, Len(ops) - 1),
       operandsStack |->
         Append(SubSeq(nds, 1, Len(nds) - 2),
                BinaryOperation(op.data, left, right))]

ReduceOnStrictlyHigher_mustReduce(stacks, currentPrecedence) ==
  /\ Len(stacks.operatorStack) > 0
  /\ OPERATOR_PRECEDENCE(stacks.operatorStack[Len(stacks.operatorStack)].data)
       > currentPrecedence

\* The inner loop's condition: the stack's top binds at least as tightly.
mustReduce(stacks, currentPrecedence) ==
  /\ Len(stacks.operatorStack) > 0
  /\ OPERATOR_PRECEDENCE(stacks.operatorStack[Len(stacks.operatorStack)].data)
       >= currentPrecedence

RECURSIVE reduceWhile(_, _)
reduceWhile(stacks, currentPrecedence) ==
  IF mustReduce(stacks, currentPrecedence)
  THEN reduceWhile(reduce(stacks), currentPrecedence)
  ELSE stacks

RECURSIVE drain(_)
drain(stacks) ==
  IF Len(stacks.operatorStack) > 0 THEN drain(reduce(stacks)) ELSE stacks

\* What a parsing function returned, made the data of an expression of the
\* given type, or its Error.
WrapExpr(type, r) == IF r.ok THEN Ok(r.cur, Expr(type, r.val)) ELSE r

\* A parsing function that calls another is written as a chain of operators:
\* each takes what the call before it returned and goes on from there, to
\* the next call or to the function's return.
RECURSIVE parseExpression(_, _)
RECURSIVE parseExpression_operand(_, _)
RECURSIVE parseExpression_drain(_)
RECURSIVE parseExpressionLoop(_, _, _)
RECURSIVE parseExpression_operator(_, _, _)
RECURSIVE parseExpression_nextOperand(_, _, _, _)
RECURSIVE parseOperand(_, _)
RECURSIVE parseOperand_identifier(_, _, _)
RECURSIVE parseFunctionCall(_, _)
RECURSIVE parseFunctionCall_arguments(_, _)
RECURSIVE parseFunctionCallLoop(_, _, _, _)
RECURSIVE parseFunctionCall_argument(_, _, _)
RECURSIVE parseArray(_, _)
RECURSIVE parseArray_items(_)
RECURSIVE parseArrayLoop(_, _, _, _)
RECURSIVE parseArray_item(_, _, _)

parseExpression(ts, c) == parseExpression_operand(ts, parseOperand(ts, c))

\* After the first operand: the peek and the operator loop.  The token the
\* loop tests is the one peeked before it, so it ends only by its break.
parseExpression_operand(ts, operand) ==
  IF ~operand.ok THEN operand
  ELSE LET pk == peek(ts, operand.cur, 1)
           start == [operatorStack |-> <<>>, operandsStack |-> <<operand.val>>]
       IN  IF pk.tok = Undefined THEN TypeError(pk.cur)
           ELSE parseExpression_drain(
                  IF pk.tok.type # "EOF"
                  THEN parseExpressionLoop(ts, pk.cur, start)
                  ELSE Ok(pk.cur, start))

\* After the operator loop: the remaining reductions and the return.
parseExpression_drain(looped) ==
  IF ~looped.ok THEN looped
  ELSE Ok(looped.cur, drain(looped.val).operandsStack[1])

\* One iteration of the operator loop.
parseExpressionLoop(ts, c, stacks) ==
  parseExpression_operator(ts, stacks, parseOperator(ts, c))

parseExpression_operator(ts, stacks, operator) ==
  IF ~operator.ok THEN operator
  ELSE IF operator.val.data = Null THEN Ok(operator.cur, stacks)
  ELSE parseExpression_nextOperand(ts,
         reduceWhile(stacks, OPERATOR_PRECEDENCE(operator.val.data)),
         operator.val, parseOperand(ts, operator.cur))

parseExpression_nextOperand(ts, reduced, operator, nextOperand) ==
  IF ~nextOperand.ok THEN nextOperand
  ELSE parseExpressionLoop(ts, nextOperand.cur,
         [operatorStack |-> Append(reduced.operatorStack, operator),
          operandsStack |-> Append(reduced.operandsStack, nextOperand.val)])

parseOperand(ts, c) ==
  LET pk == peek(ts, c, 1)
      token == pk.tok
      popped == pop(ts, pk.cur).cur
  IN  IF token = Undefined THEN TypeError(pk.cur)
      ELSE IF token.type = "String" THEN Ok(popped, Expr("string", token.value))
      ELSE IF token.type = "Number" THEN Ok(popped, Expr("i32", token.value))
      ELSE IF token.type = "True"
        THEN Ok(popped, Expr("bool", <<"t", "r", "u", "e">>))
      ELSE IF token.type = "False"
        THEN Ok(popped, Expr("bool", <<"f", "a", "l", "s", "e">>))
      ELSE IF token.type = "Identifier"
        THEN parseOperand_identifier(ts, token, peek(ts, pk.cur, 2))
      ELSE IF token.type = "It" THEN Ok(popped, Expr("variable", <<"i", "t">>))
      ELSE IF token.type = "LBracket"
        THEN WrapExpr("array", parseArray(ts, pk.cur))
      ELSE Expected(pk.cur, "expression", token)

\* The Identifier branch: a call if a parenthesis follows, else a variable.
parseOperand_identifier(ts, token, pk2) ==
  IF pk2.tok = Undefined THEN TypeError(pk2.cur)
  ELSE IF pk2.tok.type = "LParen"
    THEN WrapExpr("function-call", parseFunctionCall(ts, pk2.cur))
  ELSE Ok(pop(ts, pk2.cur).cur, Expr("variable", token.value))

parseFunctionCall(ts, c) ==
  LET p1 == pop(ts, c)
      p2 == pop(ts, p1.cur)
      pk == peek(ts, p2.cur, 1)
      first == IF pk.tok.type = "RParen" THEN pop(ts, pk.cur) ELSE pk
  IN  IF p1.tok.type # "Identifier"
        THEN Expected(p1.cur, "function name", p1.tok)
      ELSE IF p2.tok.type # "LParen" THEN Expected(p2.cur, "'('", p2.tok)
      ELSE IF pk.tok = Undefined THEN TypeError(pk.cur)
      ELSE parseFunctionCall_arguments(p1.tok.value,
             parseFunctionCallLoop(ts, first.cur, first.tok, <<>>))

\* After the argument loop: the closing parenthesis and the return.
parseFunctionCall_arguments(name, looped) ==
  IF ~looped.ok THEN looped
  ELSE IF looped.val.token.type # "RParen"
    THEN Expected(looped.cur, "')'", looped.val.token)
  ELSE Ok(looped.cur, [name |-> name, arguments |-> looped.val.arguments])

\* The argument loop: `token` is the token the loop condition tests.
parseFunctionCallLoop(ts, c, token, arguments) ==
  IF token = Undefined THEN TypeError(c)
  ELSE IF token.type = "EOF" \/ token.type = "RParen"
    THEN Ok(c, [token |-> token, arguments |-> arguments])
  ELSE parseFunctionCall_argument(ts, arguments, parseExpression(ts, c))

parseFunctionCall_argument(ts, arguments, arg) ==
  IF ~arg.ok THEN arg
  ELSE LET p == pop(ts, arg.cur)
       IN  parseFunctionCallLoop(ts, p.cur, p.tok, Append(arguments, arg.val))

parseArray(ts, c) ==
  LET p == pop(ts, c)
      pk == peek(ts, p.cur, 1)
  IN  IF p.tok.type # "LBracket" THEN Expected(p.cur, "'['", p.tok)
      ELSE IF pk.tok = Undefined THEN TypeError(pk.cur)
      ELSE parseArray_items(parseArrayLoop(ts, pk.cur, pk.tok, <<>>))

parseArray_items(looped) ==
  IF ~looped.ok THEN looped
  ELSE Ok(looped.cur, [type |-> "I32", items |-> looped.val])

\* The item loop: `token` is the token the loop condition tests.
parseArrayLoop(ts, c, token, items) ==
  IF token = Undefined THEN TypeError(c)
  ELSE IF token.type = "EOF" \/ token.type = "RBracket" THEN Ok(c, items)
  ELSE parseArray_item(ts, items, parseExpression(ts, c))

parseArray_item(ts, items, item) ==
  IF ~item.ok THEN item
  ELSE LET pk == peek(ts, item.cur, 1)
           p == pop(ts, pk.cur)
       IN  IF pk.tok.type # "Comma" /\ pk.tok.type # "RBracket"
             THEN Expected(pk.cur, "','", pk.tok)
           ELSE parseArrayLoop(ts, p.cur, p.tok, Append(items, item.val))

\* enum DataType, by name.
DataType == {"Void", "String", "I32", "Bool"}

\* parseType's switch on the type token's value, and the return after it.
typeOfName(value) ==
  CASE value = W_string -> "String"
    [] value = W_i32 -> "I32"
    [] value = W_void -> "Void"
    [] OTHER -> "Void"

parseType(ts, c) ==
  LET p1 == pop(ts, c)
      p2 == pop(ts, p1.cur)
  IN  IF p1.tok.type # "Colon" THEN Expected(p1.cur, "':'", p1.tok)
      ELSE IF p2.tok.type # "Type" THEN Expected(p2.cur, "data type", p2.tok)
      ELSE Ok(p2.cur, typeOfName(p2.tok.value))

parseFunctionParameter_type(name, type) ==
  IF ~type.ok THEN type
  ELSE Ok(type.cur, [name |-> name, type |-> type.val])

parseFunctionParameter(ts, c) ==
  LET p == pop(ts, c)
  IN  IF p.tok.type # "Identifier"
        THEN Expected(p.cur, "parameter name", p.tok)
      ELSE parseFunctionParameter_type(p.tok.value, parseType(ts, p.cur))

\* The parameter loop of parseFunction: `token` is the token its condition
\* tests; the loop yields the token it ends on and the parameters.
RECURSIVE parseFunctionParams(_, _, _, _)
RECURSIVE parseFunction_param(_, _, _)

parseFunctionParams(ts, c, token, params) ==
  IF token = Undefined THEN TypeError(c)
  ELSE IF token.type = "EOF" \/ token.type = "RParen"
    THEN Ok(c, [token |-> token, params |-> params])
  ELSE parseFunction_param(ts, params, parseFunctionParameter(ts, c))

parseFunction_param(ts, params, param) ==
  IF ~param.ok THEN param
  ELSE LET p == pop(ts, param.cur)
           pk == peek(ts, p.cur, 1)
       IN  IF p.tok = Undefined THEN TypeError(p.cur)
           ELSE IF p.tok.type # "Comma"
             THEN Ok(p.cur,
                     [token |-> p.tok, params |-> Append(params, param.val)])
           ELSE parseFunctionParams(ts, pk.cur, pk.tok,
                  Append(params, param.val))

\* The absent optional field of a statement: an expression that is undefined.
NoExpression == Expr("undefined", NoText)

EmptyBlock == [statements |-> <<>>, variables |-> <<>>]

Statement(type, data) == [type |-> type, data |-> data]

\* A statement made of what a parsing function returned, or its Error.
Wrap(type, r) == IF r.ok THEN Ok(r.cur, Statement(type, r.val)) ELSE r

RECURSIVE parseBlock(_, _)
RECURSIVE parseBlock_statements(_, _)
RECURSIVE parseBlockLoop(_, _, _, _)
RECURSIVE parseBlock_stmnt(_, _, _)
RECURSIVE parseStatement(_, _)
RECURSIVE parseStatementLoop(_, _, _)
RECURSIVE parseVariableDecl(_, _)
RECURSIVE parseVariableDecl_type(_, _, _)
RECURSIVE parseVariableDecl_value(_, _, _, _)
RECURSIVE parseIfStatement(_, _)
RECURSIVE parseIfStatement_condition(_, _)
RECURSIVE parseIfStatement_block(_, _, _)
RECURSIVE parseIfStatement_elseif(_, _, _)
RECURSIVE parseIfStatement_else(_, _)
RECURSIVE parseElseIfs(_, _, _, _)
RECURSIVE parseElseIfs_condition(_, _, _)
RECURSIVE parseElseIfs_block(_, _, _, _)
RECURSIVE parseMatchStatement(_, _)
RECURSIVE parseMatchStatement_pattern(_, _)
RECURSIVE parseMatchStatement_cases(_, _, _)
RECURSIVE parseMatchStatement_else(_, _, _, _)
RECURSIVE parseMatchStatement_close(_, _, _, _, _)
RECURSIVE parseMatchCases(_, _, _, _)
RECURSIVE parseMatchCases_case(_, _, _)
RECURSIVE parseMatchCase(_, _)
RECURSIVE parseMatchCase_pattern(_, _)
RECURSIVE parseMatchCase_block(_, _)
RECURSIVE parseForStatement(_, _)
RECURSIVE parseForStatement_identifier(_, _, _)
RECURSIVE parseForStatement_item(_, _, _)
RECURSIVE parseForStatement_expression(_, _, _)
RECURSIVE parseForStatement_block(_, _, _)

parseBlock(ts, c) ==
  LET p == pop(ts, c)
      pk == peek(ts, p.cur, 1)
  IN  IF p.tok.type # "LBrace" THEN Expected(p.cur, "'{'", p.tok)
      ELSE IF pk.tok = Undefined THEN TypeError(pk.cur)
      ELSE parseBlock_statements(ts,
             parseBlockLoop(ts, pk.cur, pk.tok, EmptyBlock))

\* After the statement loop: the closing brace, its pop and the return.
parseBlock_statements(ts, looped) ==
  IF ~looped.ok THEN looped
  ELSE IF looped.val.token.type # "RBrace"
    THEN Expected(looped.cur, "'}'", looped.val.token)
  ELSE Ok(pop(ts, looped.cur).cur, looped.val.block)

\* The statement loop of parseBlock: `token` is the token its condition tests.
parseBlockLoop(ts, c, token, block) ==
  IF token = Undefined THEN TypeError(c)
  ELSE IF token.type = "EOF" \/ token.type = "RBrace"
    THEN Ok(c, [token |-> token, block |-> block])
  ELSE parseBlock_stmnt(ts, block, parseStatement(ts, c))

parseBlock_stmnt(ts, block, stmnt) ==
  IF ~stmnt.ok THEN stmnt
  ELSE LET pk == peek(ts, stmnt.cur, 1)
       IN  parseBlockLoop(ts, pk.cur, pk.tok,
             [statements |-> Append(block.statements, stmnt.val),
              variables |->
                IF stmnt.val.type = "variable-decl"
                THEN Append(block.variables, stmnt.val.data)
                ELSE block.variables])

parseStatement(ts, c) ==
  LET pk == peek(ts, c, 1)
  IN  parseStatementLoop(ts, pk.cur, pk.tok)

\* The loop of parseStatement: `token` is the token its switch tests.
parseStatementLoop(ts, c, token) ==
  LET p == pop(ts, c)
  IN  IF token = Undefined THEN TypeError(c)
      ELSE IF token.type = "EOF" THEN Throw(c, <<"Incomplete statement">>)
      ELSE IF token.type = "Identifier"
        THEN Wrap("expression", parseExpression(ts, c))
      ELSE IF token.type = "Return"
        THEN Wrap("return", parseExpression(ts, p.cur))
      ELSE IF token.type = "Let"
        THEN Wrap("variable-decl", parseVariableDecl(ts, c))
      ELSE IF token.type = "If"
        THEN Wrap("if-statement", parseIfStatement(ts, c))
      ELSE IF token.type = TokenTypeMatch
        THEN Wrap("match-statement", parseMatchStatement(ts, c))
      ELSE IF token.type = "For"
        THEN Wrap("for-statement", parseForStatement(ts, c))
      ELSE IF token.type = "Break" THEN Ok(p.cur, Statement("break", Null))
      ELSE IF token.type = "Skip" THEN Ok(p.cur, Statement("skip", Null))
      ELSE IF token.type = "Defer"
        THEN Wrap("defer", parseExpression(ts, p.cur))
      ELSE parseStatementLoop(ts, p.cur, p.tok)

parseVariableDecl(ts, c) ==
  LET p1 == pop(ts, c)
      p2 == pop(ts, p1.cur)
  IN  IF p1.tok.type # "Let" THEN Expected(p1.cur, "'let'", p1.tok)
      ELSE IF p2.tok.type # "Identifier"
        THEN Expected(p2.cur, "variable name", p2.tok)
      ELSE parseVariableDecl_type(ts, p2.tok.value, parseType(ts, p2.cur))

\* After the type: the optional `[]`, the `=` and the value.
parseVariableDecl_type(ts, name, type) ==
  IF ~type.ok THEN type
  ELSE LET pk == peek(ts, type.cur, 1)
           isArray == pk.tok.type = "LBracket"
           b2 == pop(ts, pop(ts, pk.cur).cur)
           p3 == pop(ts, IF isArray THEN b2.cur ELSE pk.cur)
       IN  IF pk.tok = Undefined THEN TypeError(pk.cur)
           ELSE IF isArray /\ b2.tok.type # "RBracket"
             THEN Expected(b2.cur, "'[]'", b2.tok)
           ELSE IF p3.tok.type # "Assign" THEN Expected(p3.cur, "'='", p3.tok)
           ELSE parseVariableDecl_value(name, type.val, isArray,
                  parseExpression(ts, p3.cur))

parseVariableDecl_value(name, type, isArray, value) ==
  IF ~value.ok THEN value
  ELSE Ok(value.cur,
          [name |-> name, type |-> type, isArray |-> isArray,
           value |-> value.val])

parseIfStatement(ts, c) ==
  LET p == pop(ts, c)
  IN  IF p.tok.type # "If" THEN Expected(p.cur, "'if'", p.tok)
      ELSE parseIfStatement_condition(ts, parseExpression(ts, p.cur))

parseIfStatement_condition(ts, condition) ==
  IF ~condition.ok THEN condition
  ELSE parseIfStatement_block(ts, condition.val, parseBlock(ts, condition.cur))

\* After the block of the if: the elif loop.
parseIfStatement_block(ts, condition, block) ==
  IF ~block.ok THEN block
  ELSE LET pk1 == peek(ts, block.cur, 1)
       IN  parseIfStatement_elseif(ts,
             [condition |-> condition, block |-> block.val],
             parseElseIfs(ts, pk1.cur, pk1.tok, <<>>))

\* After the elif loop: the optional else.
parseIfStatement_elseif(ts, ifPart, elseif) ==
  IF ~elseif.ok THEN elseif
  ELSE LET pk2 == peek(ts, elseif.cur, 1)
           st == [if |-> ifPart, elseif |-> elseif.val]
       IN  IF pk2.tok = Undefined THEN TypeError(pk2.cur)
           ELSE IF pk2.tok.type # "Else"
             THEN Ok(pk2.cur, st @@ [hasElse |-> FALSE, else |-> EmptyBlock])
           ELSE parseIfStatement_else(st, parseBlock(ts, pop(ts, pk2.cur).cur))

parseIfStatement_else(st, elseBlock) ==
  IF ~elseBlock.ok THEN elseBlock
  ELSE Ok(elseBlock.cur, st @@ [hasElse |-> TRUE, else |-> elseBlock.val])

\* The elif loop of parseIfStatement: `token` is the token its condition tests.
parseElseIfs(ts, c, token, elseif) ==
  IF token = Undefined THEN TypeError(c)
  ELSE IF token.type # "ElseIf" THEN Ok(c, elseif)
  ELSE parseElseIfs_condition(ts, elseif, parseExpression(ts, pop(ts, c).cur))

parseElseIfs_condition(ts, elseif, condition) ==
  IF ~condition.ok THEN condition
  ELSE parseElseIfs_block(ts, elseif, condition.val,
         parseBlock(ts, condition.cur))

parseElseIfs_block(ts, elseif, condition, block) ==
  IF ~block.ok THEN block
  ELSE LET pk == peek(ts, block.cur, 1)
       IN  parseElseIfs(ts, pk.cur, pk.tok,
             Append(elseif, [condition |-> condition, block |-> block.val]))

parseMatchStatement(ts, c) ==
  LET p1 == pop(ts, c)
  IN  IF p1.tok.type # TokenTypeMatch
        THEN Expected(p1.cur, "'match'", p1.tok)
      ELSE parseMatchStatement_pattern(ts, parseExpression(ts, p1.cur))

\* After the pattern: the opening brace and the case loop, whose condition
\* first tests the brace just popped.
parseMatchStatement_pattern(ts, pattern) ==
  IF ~pattern.ok THEN pattern
  ELSE LET p2 == pop(ts, pattern.cur)
       IN  IF p2.tok.type # "LBrace" THEN Expected(p2.cur, "'{'", p2.tok)
           ELSE parseMatchStatement_cases(ts, pattern.val,
                  parseMatchCases(ts, p2.cur, p2.tok, <<>>))

\* After the case loop: a pop, the else block if the token popped is `else`.
parseMatchStatement_cases(ts, pattern, cases) ==
  IF ~cases.ok THEN cases
  ELSE LET p3 == pop(ts, cases.cur)
       IN  IF p3.tok = Undefined THEN TypeError(p3.cur)
           ELSE IF p3.tok.type = "Else"
             THEN parseMatchStatement_else(ts, pattern, cases.val,
                    parseBlock(ts, p3.cur))
           ELSE parseMatchStatement_close(pattern, cases.val, FALSE,
                  EmptyBlock, pop(ts, p3.cur))

parseMatchStatement_else(ts, pattern, cases, elseBlock) ==
  IF ~elseBlock.ok THEN elseBlock
  ELSE parseMatchStatement_close(pattern, cases, TRUE, elseBlock.val,
         pop(ts, elseBlock.cur))

\* The last pop, which must yield the closing brace.
parseMatchStatement_close(pattern, cases, hasElse, elseBlock, p4) ==
  IF p4.tok.type # "RBrace" THEN Expected(p4.cur, "'}'", p4.tok)
  ELSE Ok(p4.cur,
          [pattern |-> pattern, cases |-> cases, hasElse |-> hasElse,
           else |-> elseBlock])

\* The case loop of parseMatchStatement: `token` is the token its condition
\* tests.
parseMatchCases(ts, c, token, cases) ==
  IF token = Undefined THEN TypeError(c)
  ELSE IF token.type \in {"EOF", "RBrace", "Else"} THEN Ok(c, cases)
  ELSE parseMatchCases_case(ts, cases, parseMatchCase(ts, c))

parseMatchCases_case(ts, cases, case) ==
  IF ~case.ok THEN case
  ELSE LET pk == peek(ts, case.cur, 1)
       IN  parseMatchCases(ts, pk.cur, pk.tok, Append(cases, case.val))

parseMatchCase(ts, c) == parseMatchCase_pattern(ts, parseExpression(ts, c))

parseMatchCase_pattern(ts, pattern) ==
  IF ~pattern.ok THEN pattern
  ELSE parseMatchCase_block(pattern.val, parseBlock(ts, pattern.cur))

parseMatchCase_block(pattern, block) ==
  IF ~block.ok THEN block
  ELSE Ok(block.cur, [pattern |-> pattern, block |-> block.val])

parseForStatement(ts, c) ==
  LET p == pop(ts, c)
      pk == peek(ts, p.cur, 1)
  IN  IF p.tok.type # "For" THEN Expected(p.cur, "'for'", p.tok)
      ELSE IF pk.tok = Undefined THEN TypeError(pk.cur)
      ELSE IF pk.tok.type = "LBrace"
        THEN parseForStatement_block(NoText, NoExpression,
               parseBlock(ts, pk.cur))
      ELSE IF pk.tok.type = "Identifier"
        THEN parseForStatement_identifier(ts, pk.tok.value,
               peek(ts, pk.cur, 2))
      ELSE parseForStatement_item(ts, NoText, pk.cur)

\* The token after `for` is an identifier: it is the item if `in` follows,
\* and then one token is popped.
parseForStatement_identifier(ts, identifier, pk2) ==
  IF pk2.tok = Undefined THEN TypeError(pk2.cur)
  ELSE IF pk2.tok.type = "In"
    THEN parseForStatement_item(ts, identifier, pop(ts, pk2.cur).cur)
  ELSE parseForStatement_item(ts, NoText, pk2.cur)

parseForStatement_item(ts, item, c) ==
  parseForStatement_expression(ts, item, parseExpression(ts, c))

parseForStatement_expression(ts, item, expression) ==
  IF ~expression.ok THEN expression
  ELSE parseForStatement_block(item, expression.val,
         parseBlock(ts, expression.cur))

parseForStatement_block(item, expression, block) ==
  IF ~block.ok THEN block
  ELSE Ok(block.cur,
          [item |-> item, expression |-> expression, block |-> block.val])

RECURSIVE parseLoop(_, _, _, _)
RECURSIVE parse_func(_, _, _)

parseFunction_block(name, params, returns, block) ==
  IF ~block.ok THEN block
  ELSE Ok(block.cur,
          [name |-> name, params |-> params, returns |-> returns,
           block |-> block.val])

parseFunction_returns(ts, name, params, returns) ==
  IF ~returns.ok THEN returns
  ELSE parseFunction_block(name, params, returns.val,
         parseBlock(ts, returns.cur))

\* After the parameter loop: the closing parenthesis, the type, the block.
parseFunction_params(ts, name, looped) ==
  IF ~looped.ok THEN looped
  ELSE IF looped.val.token.type # "RParen"
    THEN Expected(looped.cur, "')'", looped.val.token)
  ELSE parseFunction_returns(ts, name, looped.val.params,
         parseType(ts, looped.cur))

parseFunction(ts, c) ==
  LET p1 == pop(ts, c)
      p2 == pop(ts, p1.cur)
      pk == peek(ts, p2.cur, 1)
      first == IF pk.tok.type = "RParen" THEN pop(ts, pk.cur) ELSE pk
  IN  IF p1.tok = Undefined THEN TypeError(p1.cur)
      ELSE IF p1.tok.type = "EOF"
        THEN Throw(p1.cur, <<"Unexpected end of file">>)
      ELSE IF p1.tok.type # "Identifier"
        THEN Expected(p1.cur, "function name", p1.tok)
      ELSE IF p2.tok.type # "LParen" THEN Expected(p2.cur, "'('", p2.tok)
      ELSE IF pk.tok = Undefined THEN TypeError(pk.cur)
      ELSE parseFunction_params(ts, p1.tok.value,
             parseFunctionParams(ts, first.cur, first.tok, <<>>))

\* The loop of parse: `token` is the token its condition tests.
parseLoop(ts, c, token, funcs) ==
  IF token = Undefined THEN TypeError(c)
  ELSE IF token.type = "EOF" THEN Ok(c, [funcs |-> funcs])
  ELSE IF token.type = "Func" THEN parse_func(ts, funcs, parseFunction(ts, c))
  ELSE LET p == pop(ts, c)
       IN  parseLoop(ts, p.cur, p.tok, funcs)

parse_func(ts, funcs, func) ==
  IF ~func.ok THEN func
  ELSE LET p == pop(ts, func.cur)
       IN  parseLoop(ts, p.cur, p.tok, Append(funcs, func.val))

parse(ts, c) ==
  LET p == pop(ts, c)
  IN  parseLoop(ts, p.cur, p.tok, <<>>)

(***************************************************************************)
(* Code generator (codegen.ts).  A string is a sequence of fragments; an   *)
(* array of strings (the lines a function returns) a sequence of those.    *)
(***************************************************************************)

W_print == <<"p", "r", "i", "n", "t">>
W_main == <<"m", "a", "i", "n">>

DigitChar == <<"0", "1", "2", "3", "4", "5", "6", "7", "8", "9">>

\* `${n}` for a number n >= 0: its decimal digits.
RECURSIVE NumberToString(_)
NumberToString(n) ==
  IF n < 10 THEN <<DigitChar[n + 1]>>
  ELSE NumberToString(n \div 10) \o <<DigitChar[(n % 10) + 1]>>

\* strings.join(sep)
RECURSIVE Join(_, _)
Join(strings, sep) ==
  IF Len(strings) = 0 THEN <<>>
  ELSE IF Len(strings) = 1 THEN strings[1]
  ELSE strings[1] \o <<sep>> \o Join(Tail(strings), sep)

\* [...a, ...b, ...] for an array of arrays of lines
RECURSIVE Spread(_)
Spread(arrays) ==
  IF Len(arrays) = 0 THEN <<>> ELSE arrays[1] \o Spread(Tail(arrays))

\* ' '.repeat(indentLevel * 4), one fragment of four spaces a level
Indent(indentLevel) == [k \in 1..indentLevel |-> "    "]

\* context.funcs.findIndex(func => func.name === name) !== -1
declares(context, name) ==
  \E k \in 1..Len(context.funcs) : context.funcs[k].name = name

translateOperator(operator) ==
  CASE operator = "Add" -> "+"
    [] operator = "Subtract" -> "-"
    [] operator = "Multiply" -> "*"
    [] operator = "Divide" -> "/"
    [] operator = "Equal" -> "==="
    [] operator = "NotEqual" -> "!=="
    [] operator = "LessThan" -> "<"
    [] operator = "LessThanOrEqual" -> "<="
    [] operator = "GreaterThan" -> ">"
    [] operator = "GreaterThanOrEqual" -> ">="
    [] operator = "And" -> "&&"
    [] operator = "Or" -> "||"
    [] OTHER -> ""

RECURSIVE translateExpression(_, _)
RECURSIVE translateFunctionCall(_, _)

CallsAnyName_lowerCall(name, args, context) ==
  IF name = W_print THEN <<"console.log(">> \o args \o <<");">>
  ELSE name \o <<"(">> \o args \o <<")">>

PrintAsName_lowerCall(name, args, context) ==
  IF declares(context, name) \/ name = W_print
  THEN name \o <<"(">> \o args \o <<")">>
  ELSE <<>>

\* What translateFunctionCall returns for a callee and its joined arguments.
lowerCall(name, args, context) ==
  IF name = W_print THEN <<"console.log(">> \o args \o <<");">>
  ELSE IF declares(context, name) THEN name \o <<"(">> \o args \o <<")">>
  ELSE <<>>

translateFunctionCall(call, context) ==
  lowerCall(call.name,
            Join([k \in 1..Len(call.arguments) |->
                    translateExpression(call.arguments[k], context)], ", "),
            context)

translateExpression(expression, context) ==
  CASE expression.type = "function-call" ->
         translateFunctionCall(expression.data, context)
    [] expression.type = "string" -> <<"'">> \o expression.data \o <<"'">>
    [] expression.type \in {"i32", "bool", "variable"} -> expression.data
    [] expression.type = "binary-operation" ->
         translateExpression(expression.data.left, context)
           \o <<" ", translateOperator(expression.data.operator), " ">>
           \o translateExpression(expression.data.right, context)
    [] expression.type = "array" ->
         <<"[">>
           \o Join([k \in 1..Len(expression.data.items) |->
                      translateExpression(expression.data.items[k], context)],
                   ", ")
           \o <<"]">>
    [] OTHER -> <<>>

translateRangeExpression(expression, context) ==
  [start |-> translateExpression(expression.left, context),
   end |-> translateExpression(expression.right, context)]

translateVariableDecl(decl, context) ==
  <<"const ">> \o decl.name \o <<" = ">>
    \o translateExpression(decl.value, context) \o <<";">>

translateFunctionParams(params) ==
  Join([k \in 1..Len(params) |-> params[k].name], ", ")

\* st.expression.data.operator === Operator.Range: only the data of a binary
\* operation has an operator.
isRange(expression) ==
  expression.type = "binary-operation" /\ expression.data.operator = "Range"

\* if (st.expression): the field is present
hasExpression(st) == st.expression.type # "undefined"

\* `defer_${defers.length}`
deferName(n) == <<"defer_">> \o NumberToString(n)

LessOrEqual_countedLoopHeader(indent, itemName, start, end) ==
  indent \o <<"for (let ">> \o itemName \o <<" = ">> \o start \o <<"; ">>
    \o itemName \o <<" <= ">> \o end \o <<"; ">> \o itemName \o <<"++) {">>

\* `${indent}for (let ${itemName} = ${start}; ${itemName} < ${end}; ${itemName}++) {`
countedLoopHeader(indent, itemName, start, end) ==
  indent \o <<"for (let ">> \o itemName \o <<" = ">> \o start \o <<"; ">>
    \o itemName \o <<" < ">> \o end \o <<"; ">> \o itemName \o <<"++) {">>

RECURSIVE translateBlock(_, _, _)
RECURSIVE translateStatements(_, _, _, _, _)
RECURSIVE translateIfStatement(_, _, _)
RECURSIVE translateMatchStatement(_, _, _)
RECURSIVE translateMatchCase(_, _, _)
RECURSIVE translateForStatement(_, _, _)

ReverseOrder_deferCalls(indent, defers) ==
  [k \in 1..Len(defers) |->
     indent \o defers[Len(defers) + 1 - k] \o <<"();">>]

\* for (const defer of defers) result.push(`${indent}${defer}();`)
deferCalls(indent, defers) ==
  [k \in 1..Len(defers) |-> indent \o defers[k] \o <<"();">>]

\* The statement loop of translateBlock from statement k on: the lines pushed
\* so far and the names of the defers met so far.
translateStatements(block, k, context, indentLevel, acc) ==
  LET indent == Indent(indentLevel)
      statement == block.statements[k]
      name == deferName(Len(acc.defers))
      lines ==
        CASE statement.type = "expression" ->
               <<indent \o translateExpression(statement.data, context)>>
          [] statement.type = "return" ->
               <<indent \o <<"return ">>
                   \o translateExpression(statement.data, context) \o <<";">>>>
          [] statement.type = "variable-decl" ->
               <<indent \o translateVariableDecl(statement.data, context)>>
          [] statement.type = "if-statement" ->
               <<translateIfStatement(statement.data, context, indentLevel)>>
          [] statement.type = "match-statement" ->
               <<translateMatchStatement(statement.data, context, indentLevel)>>
          [] statement.type = "for-statement" ->
               translateForStatement(statement.data, context, indentLevel)
          [] statement.type = "break" -> <<indent \o <<"break;">>>>
          [] statement.type = "skip" -> <<indent \o <<"continue">>>>
          [] statement.type = "defer" ->
               <<indent \o <<"const ">> \o name \o <<" = () => { ">>
                   \o translateExpression(statement.data, context)
                   \o <<"; };">>>>
          [] OTHER -> <<>>
  IN  IF k > Len(block.statements) THEN acc
      ELSE translateStatements(block, k + 1, context, indentLevel,
             [result |-> acc.result \o lines,
              defers |->
                IF statement.type = "defer" THEN Append(acc.defers, name)
                ELSE acc.defers])

translateBlock(block, context, indentLevel) ==
  LET done == translateStatements(block, 1, context, indentLevel,
                                  [result |-> <<>>, defers |-> <<>>])
  IN  done.result \o deferCalls(Indent(indentLevel), done.defers)

translateIfStatement(st, context, indentLevel) ==
  LET indent == Indent(indentLevel)
      elif(k) ==
        <<indent \o <<"} else if (">>
            \o translateExpression(st.elseif[k].condition, context)
            \o <<") {">>>>
          \o translateBlock(st.elseif[k].block, context, indentLevel + 1)
  IN  Join(<<indent \o <<"if (">>
               \o translateExpression(st.if.condition, context) \o <<") {">>>>
             \o translateBlock(st.if.block, context, indentLevel + 1)
             \o Spread([k \in 1..Len(st.elseif) |-> elif(k)])
             \o (IF st.hasElse
                 THEN <<indent \o <<"} else {">>>>
                        \o translateBlock(st.else, context, indentLevel + 1)
                 ELSE <<>>)
             \o <<indent \o <<"}">>>>,
           "\n")

translateMatchCase(c, context, indentLevel) ==
  <<Indent(indentLevel) \o <<"case ">>
      \o translateExpression(c.pattern, context) \o <<": {">>>>
    \o translateBlock(c.block, context, indentLevel + 1)
    \o <<Indent(indentLevel + 1) \o <<"break;">>,
         Indent(indentLevel) \o <<"}">>>>

translateMatchStatement(st, context, indentLevel) ==
  Join(<<Indent(indentLevel) \o <<"switch (">>
           \o translateExpression(st.pattern, context) \o <<") {">>>>
         \o Spread([k \in 1..Len(st.cases) |->
                      translateMatchCase(st.cases[k], context, indentLevel + 1)])
         \o (IF st.hasElse
             THEN <<Indent(indentLevel + 1) \o <<"default: {">>>>
                    \o translateBlock(st.else, context, indentLevel + 2)
                    \o <<Indent(indentLevel + 2) \o <<"break;">>,
                         Indent(indentLevel + 1) \o <<"}">>>>
             ELSE <<>>)
         \o <<Indent(indentLevel) \o <<"}">>>>,
       "\n")

translateForStatement(st, context, indentLevel) ==
  LET indent == Indent(indentLevel)
      itemName == IF st.item # NoText THEN st.item ELSE W_it
      range == translateRangeExpression(st.expression.data, context)
      body == translateBlock(st.block, context, indentLevel + 1)
  IN  IF hasExpression(st) THEN
        IF isRange(st.expression) THEN
          <<countedLoopHeader(indent, itemName, range.start, range.end)>>
            \o body \o <<indent \o <<"}">>>>
        ELSE IF st.expression.type = "variable" THEN
          <<indent \o <<"for (const ">> \o itemName \o <<" of ">>
              \o translateExpression(st.expression, context) \o <<") {">>>>
            \o body \o <<indent \o <<"}">>>>
        ELSE <<>>
      ELSE <<<<"\twhile (true) {">>>> \o body \o <<<<"\t}">>>>

translateFunction(func, context) ==
  <<<<"function ">> \o func.name \o <<"(">>
      \o translateFunctionParams(func.params) \o <<") {">>>>
    \o translateBlock(func.block, context, 1)
    \o <<<<"}">>>>

NeverCallsMain_translate(parsedFile) ==
  Join(Spread([k \in 1..Len(parsedFile.funcs) |->
                 translateFunction(parsedFile.funcs[k], parsedFile)
                   \o <<NoText>>]),
       "\n")

translate(parsedFile) ==
  Join(Spread([k \in 1..Len(parsedFile.funcs) |->
                 translateFunction(parsedFile.funcs[k], parsedFile)
                   \o <<NoText>>])
         \o (IF declares(parsedFile, W_main) THEN <<<<"main();">>>> ELSE <<>>),
       "\n")

(***************************************************************************)
(* compile (compiler.ts): lex, parse, translate, one step each.  stage     *)
(* says how far the pipeline is: "source", "lexed", "parsed" (or "failed"  *)
(* when an Error was thrown and left compile), "translated" (translate's   *)
(* text returned), "returned" (the empty text returned before translate).  *)
(***************************************************************************)

\* interface CompilerOptions { dumpTokens, dumpAST }; given is FALSE when
\* compile is called without the argument, and options is undefined.
CompilerOptions(dumpTokens, dumpAST) ==
  [given |-> TRUE, dumpTokens |-> dumpTokens, dumpAST |-> dumpAST]

OptionsOmitted == [given |-> FALSE, dumpTokens |-> FALSE, dumpAST |-> FALSE]

\* Neither --lex nor --ast on the command line.
NoDump == CompilerOptions(FALSE, FALSE)

\* Source text: punctuation, and the words the model's programs use.
SP == <<" ">>
QT == <<"'">>
W_foo == <<"f", "o", "o">>
W_bar == <<"b", "a", "r">>
W_match == <<"m", "a", "t", "c", "h">>
W_x == <<"x">>
W_i == <<"i">>
W_hi == <<"h", "i", ",", " ", "y", "o", "u", "!">>

\* The largest number literal in a program the model draws.
MaxNum == 2

\* The most statements in a block the model draws.
MaxStmts == 2

Num(n) == NumberToString(n)

\* func NAME(): void { BODY }
FunctionSource(name, body) ==
  W_func \o SP \o name \o <<"(", ")", ":">> \o SP \o W_void \o SP \o <<"{">>
    \o SP \o body \o <<"}", "\n">>

\* for NAME in A..B { BODY }
ForInSource(name, a, b, body) ==
  W_for \o SP \o name \o SP \o W_in \o SP \o Num(a) \o <<".", ".">> \o Num(b)
    \o SP \o <<"{">> \o SP \o body \o <<"}">> \o SP

\* for A..B { BODY }
ForRangeSource(a, b, body) ==
  W_for \o SP \o Num(a) \o <<".", ".">> \o Num(b) \o SP \o <<"{">> \o SP
    \o body \o <<"}">> \o SP

\* for EXPR { BODY }
ForEachSource(expr, body) ==
  W_for \o SP \o expr \o SP \o <<"{">> \o SP \o body \o <<"}">> \o SP

\* NAME(ARGS)
CallSource(name, args) == name \o <<"(">> \o args \o <<")">> \o SP

StringSource(text) == QT \o text \o QT

\* match x { 1 { BODY } } and match x { 1 { BODY } else { BODY } }
MatchSource(body, withElse) ==
  W_match \o SP \o W_x \o SP \o <<"{">> \o SP \o Num(1) \o SP \o <<"{">> \o SP
    \o body \o <<"}">> \o SP
    \o (IF withElse
        THEN W_else \o SP \o <<"{">> \o SP \o body \o <<"}">> \o SP
        ELSE <<>>)
    \o <<"}">> \o SP

PrintHi == CallSource(W_print, StringSource(W_hi))

PrintIt == CallSource(W_print, W_it)

\* if 1 == 1 { BODY } elif 1 == 2 { BODY } else { BODY }
IfSource(body) ==
  W_if \o SP \o Num(1) \o <<" ", "=", "=", " ">> \o Num(1) \o SP \o <<"{">>
    \o SP \o body \o <<"}">> \o SP
    \o W_elif \o SP \o Num(1) \o <<" ", "=", "=", " ">> \o Num(2) \o SP
    \o <<"{">> \o SP \o body \o <<"}">> \o SP
    \o W_else \o SP \o <<"{">> \o SP \o body \o <<"}">> \o SP

\* The one-line statements of the model's programs: calls of print, of the
\* declared foo and of the undeclared bar, defers, a return.
SimpleStatements ==
  { PrintHi,
    CallSource(W_foo, Num(1) \o <<",", " ">> \o W_x),
    CallSource(W_bar, <<>>),
    W_defer \o SP \o PrintHi,
    W_defer \o SP \o CallSource(W_foo, Num(1)),
    W_return \o SP \o Num(1) \o SP }

\* The one-line statements of the bodies of the model's loops.
LoopStatements ==
  { PrintIt, W_defer \o SP \o PrintHi, W_break \o SP }

\* The sequences of at most n of the given statements.
RECURSIVE SourceBodies(_, _)
SourceBodies(statements, n) ==
  IF n = 0 THEN {<<>>}
  ELSE LET shorter == SourceBodies(statements, n - 1)
       IN  shorter \cup { b \o st : b \in shorter, st \in statements }

\* func foo(): void { } and func main(): void { BODY }
Program(body) == FunctionSource(W_foo, <<>>) \o FunctionSource(W_main, body)

SimplePrograms ==
  { Program(body) : body \in SourceBodies(SimpleStatements, MaxStmts) }

\* for 0..N { BODY }: the loop variable is the implicit `it`
ForRangePrograms ==
  { Program(ForRangeSource(0, MaxNum, body)) :
      body \in SourceBodies(LoopStatements, MaxStmts) }

\* for NAME in A..B { BODY }
ForInPrograms ==
  { Program(ForInSource(W_i, a, MaxNum, CallSource(W_print, W_i))) :
      a \in 0..MaxNum }

\* for EXPR { BODY }, EXPR a variable, an array literal, a function call
ForVariablePrograms ==
  { Program(ForEachSource(W_x, body)) :
      body \in SourceBodies(LoopStatements, MaxStmts) }

ForArrayPrograms ==
  { Program(ForEachSource(<<"[">> \o Num(1) \o <<"]">>, PrintIt)),
    Program(ForEachSource(<<"[">> \o Num(1) \o <<",", " ">> \o Num(2)
                            \o <<"]">>, PrintIt)) }

ForCallPrograms == { Program(ForEachSource(W_foo \o <<"(", ")">>, PrintIt)) }

\* for { BODY }
ForEverPrograms ==
  { Program(W_for \o SP \o <<"{">> \o SP \o body \o <<"}">> \o SP) :
      body \in SourceBodies(LoopStatements, MaxStmts) }

MatchPrograms ==
  { Program(MatchSource(PrintHi, withElse)) : withElse \in BOOLEAN }

IfPrograms == { Program(IfSource(PrintHi)) }

\* func main(): void { print('hi, you!') }
HelloProgram == Program(PrintHi)

Sources ==
  SimplePrograms \cup ForRangePrograms \cup ForInPrograms
    \cup ForVariablePrograms \cup ForArrayPrograms \cup ForCallPrograms
    \cup ForEverPrograms \cup MatchPrograms \cup IfPrograms

Init ==
  /\ src \in Sources
  /\ tokens = <<>>
  /\ cursor = -1
  /\ stage = "source"
  /\ ast = Null
  /\ out = NoText
  /\ err = NoText
  /\ options = NoDump

\* const tokenList = lex(src); if (options.dumpTokens) { ...; return '' }:
\* reading dumpTokens of an undefined options throws a TypeError.
Lex ==
  /\ stage = "source"
  /\ tokens' = lex(src)
  /\ cursor' = -1
  /\ stage' =
       IF ~options.given THEN "failed"
       ELSE IF options.dumpTokens THEN "returned"
       ELSE "lexed"
  /\ err' = IF ~options.given THEN <<"TypeError">> ELSE err
  /\ UNCHANGED <<src, ast, out, options>>

\* const parsedSrc = parse(tokenList); if (options.dumpAST) { ...; return '' }.
\* An Error thrown by parse is not caught: it leaves compile.
Parse ==
  /\ stage = "lexed"
  /\ LET r == parse(tokens, cursor)
     IN  /\ stage' =
              IF ~r.ok THEN "failed"
              ELSE IF options.dumpAST THEN "returned"
              ELSE "parsed"
         /\ cursor' = r.cur
         /\ ast' = r.val
         /\ err' = r.err
  /\ UNCHANGED <<src, tokens, out, options>>

\* return translate(parsedSrc)
Translate ==
  /\ stage = "parsed"
  /\ out' = translate(ast)
  /\ stage' = "translated"
  /\ UNCHANGED <<src, tokens, cursor, ast, err, options>>

Next == Lex \/ Parse \/ Translate

Spec == Init /\ [][Next]_vars

(***************************************************************************)
(* Expressions on their own: parseExpression applied to a token list that  *)
(* holds operands separated by binary operators, then EOF.                 *)
(***************************************************************************)

\* The most operators in an expression the model draws.
MaxOps == 3

Letters == <<"a", "b", "c", "d", "e", "f", "g", "h">>

\* The token types of the thirteen binary operators.
OperatorTokenType ==
  { "Plus", "Minus", "Asterisk", "ForwardSlash", "Range", "Equal", "NotEqual",
    "LessThan", "LessThanEqual", "GreaterThan", "GreaterThanEqual", "And",
    "Or" }

\* a op1 b op2 c ... EOF
ExprTokens(ops) ==
  [i \in 1..(2 * Len(ops) + 2) |->
     IF i = 2 * Len(ops) + 2 THEN T("EOF")
     ELSE IF i % 2 = 1 THEN Token("Identifier", <<Letters[(i + 1) \div 2]>>)
     ELSE T(ops[i \div 2])]

\* The sequences of n operators.
ExprInputs(n) == [1..n -> OperatorTokenType]

InitExpr ==
  /\ src = NoText
  /\ \E n \in 0..MaxOps : \E ops \in ExprInputs(n) : tokens = ExprTokens(ops)
  /\ cursor = -1
  /\ stage = "lexed"
  /\ ast = Null
  /\ out = <<>>
  /\ err = NoText
  /\ options = NoDump

\* const e = parseExpression(tokenList)
ParseExpression ==
  /\ stage = "lexed"
  /\ LET r == parseExpression(tokens, cursor)
     IN  /\ stage' = IF r.ok THEN "expression" ELSE "failed"
         /\ cursor' = r.cur
         /\ ast' = r.val
         /\ err' = r.err
  /\ UNCHANGED <<src, tokens, out, options>>

NextExpr == ParseExpression

SpecExpr == InitExpr /\ [][NextExpr]_vars

\* The operator a token of the expression grammar denotes (spec, section 4.2).
OperatorOfToken(type) ==
  CASE type = "Plus" -> "Add"
    [] type = "Minus" -> "Subtract"
    [] type = "Asterisk" -> "Multiply"
    [] type = "ForwardSlash" -> "Divide"
    [] type = "Range" -> "Range"
    [] type = "Equal" -> "Equal"
    [] type = "NotEqual" -> "NotEqual"
    [] type = "LessThan" -> "LessThan"
    [] type = "LessThanEqual" -> "LessThanOrEqual"
    [] type = "GreaterThan" -> "GreaterThan"
    [] type = "GreaterThanEqual" -> "GreaterThanOrEqual"
    [] type = "And" -> "And"
    [] type = "Or" -> "Or"

\* The precedence tiers as the specification lists them, highest first:
\* multiplicative > additive > range > relational/equality > logical.
Tier(op) ==
  CASE op \in {"Multiply", "Divide"} -> 5
    [] op \in {"Add", "Subtract"} -> 4
    [] op = "Range" -> 3
    [] op \in {"And", "Or"} -> 1
    [] OTHER -> 2

\* The input as the sequence of its operand names and operators, EOF left out.
InputReading(ts) ==
  [i \in 1..(Len(ts) - 1) |->
     IF ts[i].type = "Identifier" THEN ts[i].value[1]
     ELSE OperatorOfToken(ts[i].type)]

\* The in-order reading of an expression tree over one-letter variables.
RECURSIVE InOrder(_)
InOrder(e) ==
  IF e.type = "binary-operation"
  THEN InOrder(e.data.left) \o <<e.data.operator>> \o InOrder(e.data.right)
  ELSE <<e.data[1]>>

\* The tree fully parenthesised.
RECURSIVE Show(_)
Show(e) ==
  IF e.type = "binary-operation"
  THEN <<"(">> \o Show(e.data.left) \o <<e.data.operator>>
         \o Show(e.data.right) \o <<")">>
  ELSE <<e.data[1]>>

\* No operation has an operand that is an operation of a lower tier.
RECURSIVE TighterBelow(_)
TighterBelow(e) ==
  e.type = "binary-operation" =>
    /\ \A child \in {e.data.left, e.data.right} :
         child.type = "binary-operation" =>
           Tier(child.data.operator) >= Tier(e.data.operator)
    /\ TighterBelow(e.data.left)
    /\ TighterBelow(e.data.right)

\* No operation has a right operand that is an operation of its own tier.
RECURSIVE TiesGoLeft(_)
TiesGoLeft(e) ==
  e.type = "binary-operation" =>
    /\ e.data.right.type = "binary-operation" =>
         Tier(e.data.right.data.operator) # Tier(e.data.operator)
    /\ TiesGoLeft(e.data.left)
    /\ TiesGoLeft(e.data.right)

\* C1: parseExpression returns, for operands separated by binary operators, a
\* tree whose in-order reading is the input sequence and in which no operator
\* of a lower tier lies below one of a higher tier (tiers: multiplicative >
\* additive > range > relational/equality > logical); a + b * c yields
\* Add(a, Multiply(b, c)).
C1_PrecedenceTree ==
  stage # "lexed" =>
    /\ stage = "expression"
    /\ cursor = Len(tokens) - 2
    /\ InOrder(ast) = InputReading(tokens)
    /\ TighterBelow(ast)
    /\ (InputReading(tokens) = <<"a", "Add", "b", "Multiply", "c">> =>
          Show(ast) = <<"(", "a", "Add", "(", "b", "Multiply", "c", ")", ")">>)

C1_Witness ==
  /\ stage = "expression"
  /\ Show(ast) = <<"(", "a", "Add", "(", "b", "Multiply", "c", ")", ")">>

\* C2: on operators of one tier parseExpression associates to the left:
\* x op1 y op2 z yields op2(op1(x, y), z), and no operation has an operation of
\* its own tier as right operand; a - b - c yields
\* Subtract(Subtract(a, b), c).
C2_LeftAssociative ==
  stage = "expression" =>
    /\ TiesGoLeft(ast)
    /\ LET r == InputReading(tokens)
       IN  (Len(r) = 5 /\ Tier(r[2]) = Tier(r[4])) =>
             Show(ast) = <<"(", "(", r[1], r[2], r[3], ")", r[4], r[5], ")">>

C2_Witness ==
  /\ stage = "expression"
  /\ Show(ast) =
       <<"(", "(", "a", "Subtract", "b", ")", "Subtract", "c", ")">>

(***************************************************************************)
(* Compiled programs.  The programs drawn are `func foo(): void { }` and   *)
(* `func main(): void { BODY }`, so the output is the lines of foo, an     *)
(* empty line, the lines of main, an empty line and `main();`.             *)
(***************************************************************************)

\* The lines of a text: what lies between its "\n" fragments.
RECURSIVE Lines(_)
Lines(text) ==
  IF \A i \in 1..Len(text) : text[i] # "\n" THEN <<text>>
  ELSE LET n == CHOOSE i \in 1..Len(text) :
                  text[i] = "\n" /\ \A j \in 1..(i - 1) : text[j] # "\n"
       IN  <<SubSeq(text, 1, n - 1)>> \o Lines(SubSeq(text, n + 1, Len(text)))

\* The lines emitted between `function main() {` and its closing `}`.
MainLines == SubSeq(Lines(out), 5, Len(Lines(out)) - 3)

MainBlock == ast.funcs[2].block

\* Every statement of the block lowers to exactly one line.
OneLiners(block) ==
  \A i \in 1..Len(block.statements) :
    block.statements[i].type \in
      {"expression", "return", "defer", "break", "skip", "variable-decl"}

\* main is a single for-loop.
MainIsLoop ==
  /\ Len(MainBlock.statements) = 1
  /\ MainBlock.statements[1].type = "for-statement"

TheFor == MainBlock.statements[1].data

\* The body of main is one-line statements only.
Flat == OneLiners(MainBlock)

\* The body of main is one loop the generator emits, of one-line statements.
InLoop ==
  /\ MainIsLoop
  /\ \/ TheFor.expression.type \in {"undefined", "variable"}
     \/ /\ TheFor.expression.type = "binary-operation"
        /\ TheFor.expression.data.operator = "Range"
  /\ OneLiners(TheFor.block)

\* The block of one-line statements looked at, its lines and its depth.
TheBlock == IF Flat THEN MainBlock ELSE TheFor.block

TheLines ==
  IF Flat THEN MainLines ELSE SubSeq(MainLines, 2, Len(MainLines) - 1)

TheLevel == IF Flat THEN 1 ELSE 2

\* The number of defer statements before statement i.
DefersBefore(stmts, i) ==
  Cardinality({j \in 1..(i - 1) : stmts[j].type = "defer"})

ClosureName(j) == <<"defer_", DigitChar[j + 1]>>

\* Running the lines of a block in order: the closures invoked, up to the
\* first line that leaves the block.
RECURSIVE Invoked(_, _)
Invoked(lines, level) ==
  IF Len(lines) = 0 THEN <<>>
  ELSE LET line == lines[1]
       IN  IF Len(line) > level /\ line[level + 1] \in {"return ", "break;"}
           THEN <<>>
           ELSE (IF /\ Len(line) > level + 1
                    /\ line[level + 1] = "defer_"
                    /\ line[Len(line)] = "();"
                 THEN <<SubSeq(line, level + 1, Len(line) - 1)>>
                 ELSE <<>>)
                  \o Invoked(Tail(lines), level)

\* C6: in a block with k >= 1 defer statements, the line at the position of
\* each defer statement declares its expression as the closure
\* defer_<number of defers before it>, the k lines after the lines of all
\* the statements invoke the closures in declaration order, and running the
\* block's lines invokes all k in that order when no statement is a return
\* or a break, and none of them otherwise.
C6_DefersRunInOrderAtExit ==
  (/\ stage = "translated"
   /\ Flat \/ InLoop
   /\ DefersBefore(TheBlock.statements, Len(TheBlock.statements) + 1) >= 1) =>
    LET stmts == TheBlock.statements
        n == Len(stmts)
        k == DefersBefore(stmts, n + 1)
    IN  /\ Len(TheLines) = n + k
        /\ \A i \in 1..n :
             stmts[i].type = "defer" =>
               TheLines[i] =
                 Indent(TheLevel) \o <<"const ">>
                   \o ClosureName(DefersBefore(stmts, i))
                   \o <<" = () => { ">>
                   \o translateExpression(stmts[i].data, ast) \o <<"; };">>
        /\ \A j \in 1..k :
             TheLines[n + j] =
               Indent(TheLevel) \o ClosureName(j - 1) \o <<"();">>
        /\ Invoked(TheLines, TheLevel) =
             IF \E i \in 1..n : stmts[i].type \in {"return", "break"}
             THEN <<>>
             ELSE [j \in 1..k |-> ClosureName(j - 1)]

C6_Witness ==
  /\ stage = "translated"
  /\ Flat
  /\ Len(MainBlock.statements) = 2
  /\ DefersBefore(MainBlock.statements, 3) = 2
  /\ Invoked(MainLines, 1) = <<<<"defer_", "0">>, <<"defer_", "1">>>>

\* The statement is an expression statement that is a function call.
IsCall(st) == st.type = "expression" /\ st.data.type = "function-call"

\* The program declares a function of the name.
Declared(name) == \E f \in 1..Len(ast.funcs) : ast.funcs[f].name = name

\* The text of an argument that is a literal or a variable.
ArgText(e) ==
  IF e.type = "string" THEN <<"'">> \o e.data \o <<"'">> ELSE e.data

\* The texts of the arguments in their order, separated by ", ".
RECURSIVE ArgsText(_)
ArgsText(args) ==
  IF Len(args) = 0 THEN <<>>
  ELSE IF Len(args) = 1 THEN ArgText(args[1])
  ELSE ArgText(args[1]) \o <<", ">> \o ArgsText(Tail(args))

\* A loop whose iteration expression is present and is not a range.
IsOtherLoop ==
  /\ MainIsLoop
  /\ TheFor.expression.type # "undefined"
  /\ ~(/\ TheFor.expression.type = "binary-operation"
       /\ TheFor.expression.data.operator = "Range")

\* C8: a for-loop whose iteration expression is present and is not a range
\* lowers to `for (const NAME of EXPRESSION) {`, the lowered body and `}`,
\* NAME the item or `it`.
C8_OtherLoopIteratesElements ==
  (stage = "translated" /\ IsOtherLoop) =>
    /\ Len(MainLines) >= 2
    /\ MainLines[1] =
         Indent(1) \o <<"for (const ">>
           \o (IF TheFor.item = NoText THEN W_it ELSE TheFor.item)
           \o <<" of ">> \o translateExpression(TheFor.expression, ast)
           \o <<") {">>
    /\ SubSeq(MainLines, 2, Len(MainLines) - 1) =
         translateBlock(TheFor.block, ast, 2)
    /\ MainLines[Len(MainLines)] = Indent(1) \o <<"}">>

\* C9: an expression statement that calls a name that is neither print nor
\* declared in the program is translated, and its line is the indentation
\* alone: no code.
C9_UndeclaredCallIsEmpty ==
  (stage = "translated" /\ (Flat \/ InLoop)) =>
    \A i \in 1..Len(TheBlock.statements) :
      (/\ IsCall(TheBlock.statements[i])
       /\ TheBlock.statements[i].data.data.name # W_print
       /\ ~Declared(TheBlock.statements[i].data.data.name)) =>
        TheLines[i] = Indent(TheLevel)

C9_Witness ==
  /\ stage = "translated"
  /\ Flat
  /\ \E i \in 1..Len(MainBlock.statements) :
       /\ IsCall(MainBlock.statements[i])
       /\ MainBlock.statements[i].data.data.name = W_bar
       /\ MainLines[i] = <<"    ">>

\* The text a line `console.log('TEXT');` outputs when run.
Logged(line, level) == SubSeq(line, level + 3, Len(line) - 2)

\* C10: a statement that calls print lowers to `console.log(ARGS);`, one
\* that calls a declared function NAME to `NAME(ARGS)`, ARGS the arguments
\* in source order separated by ", "; the program whose main prints a
\* string literal compiles to the one statement that outputs that string.
C10_PrintAndDeclaredCalls ==
  (stage = "translated" /\ (Flat \/ InLoop)) =>
    /\ \A i \in 1..Len(TheBlock.statements) :
         IsCall(TheBlock.statements[i]) =>
           LET call == TheBlock.statements[i].data.data
           IN  /\ call.name = W_print =>
                    TheLines[i] =
                      Indent(TheLevel) \o <<"console.log(">>
                        \o ArgsText(call.arguments) \o <<");">>
               /\ (call.name # W_print /\ Declared(call.name)) =>
                    TheLines[i] =
                      Indent(TheLevel) \o call.name \o <<"(">>
                        \o ArgsText(call.arguments) \o <<")">>
    /\ src = HelloProgram =>
         /\ MainLines =
              <<<<"    ", "console.log(", "'", "h", "i", ",", " ", "y", "o",
                  "u", "!", "'", ");">>>>
         /\ Logged(MainLines[1], 1) = W_hi

C10_Witness ==
  /\ stage = "translated"
  /\ MainLines =
       <<<<"    ", "console.log(", "'", "h", "i", ",", " ", "y", "o", "u",
           "!", "'", ");">>,
         <<"    ", "f", "o", "o", "(", "1", ", ", "x", ")">>>>

\* C4: `for NAME in A..B { ... }` parses, into a for-loop of item NAME over
\* a range, and compiles to a counted loop on NAME.
C4_ForInLoopCompiles ==
  (src \in ForInPrograms /\ stage \notin {"source", "lexed"}) =>
    /\ stage # "failed"
    /\ MainIsLoop
    /\ TheFor.item = W_i
    /\ TheFor.expression.type = "binary-operation"
    /\ TheFor.expression.data.operator = "Range"
    /\ stage = "translated" =>
         SubSeq(MainLines[1], 1, 5) =
           <<"    ", "for (let ", "i", " = ">>
             \o TheFor.expression.data.left.data

\* C5: a statement that begins with the word match parses into a match
\* statement, the only statement of the block it is alone in.
C5_MatchStatementParses ==
  (src \in MatchPrograms /\ stage \notin {"source", "lexed"}) =>
    /\ stage # "failed"
    /\ Len(MainBlock.statements) = 1
    /\ MainBlock.statements[1].type = "match-statement"

(***************************************************************************)
(* The generator on its own: translate applied to a ParsedFile that holds  *)
(* `foo` and a `main` whose body is one for-loop, of every shape of the    *)
(* ForStatement interface (item given or not; iteration expression a       *)
(* range, a variable, an array, a call, or absent).                        *)
(***************************************************************************)

I32(n) == Expr("i32", Num(n))

Variable(name) == Expr("variable", name)

CallOf(name, arguments) ==
  Expr("function-call", [name |-> name, arguments |-> arguments])

BlockOf(statements) == [statements |-> statements, variables |-> <<>>]

FuncOf(name, block) ==
  [name |-> name, params |-> <<>>, returns |-> "Void", block |-> block]

GenItems == {NoText, W_i, W_x}

GenExpressions == {"range", "variable", "array", "call", "none"}

GenBodies == {"empty", "print", "break", "defer"}

\* The loop variable's name in the body of a loop of the given item.
ItemName(item) == IF item = NoText THEN W_it ELSE item

GenExpression(kind, a, b) ==
  CASE kind = "range" -> BinaryOperation("Range", I32(a), I32(b))
    [] kind = "variable" -> Variable(W_x)
    [] kind = "array" ->
         Expr("array", [type |-> "I32", items |-> <<I32(a), I32(b)>>])
    [] kind = "call" -> CallOf(W_foo, <<>>)
    [] kind = "none" -> NoExpression

GenBody(kind, item) ==
  CASE kind = "empty" -> <<>>
    [] kind = "print" ->
         <<Statement("expression",
                     CallOf(W_print, <<Variable(ItemName(item))>>))>>
    [] kind = "break" -> <<Statement("break", Null)>>
    [] kind = "defer" ->
         <<Statement("expression",
                     CallOf(W_print, <<Variable(ItemName(item))>>)),
           Statement("defer", CallOf(W_foo, <<I32(1)>>))>>

GenProgram(item, kind, a, b, body) ==
  [funcs |->
     <<FuncOf(W_foo, EmptyBlock),
       FuncOf(W_main,
              BlockOf(<<Statement("for-statement",
                                  [item |-> item,
                                   expression |-> GenExpression(kind, a, b),
                                   block |-> BlockOf(GenBody(body, item))])>>))>>]

InitGen ==
  /\ src = NoText
  /\ tokens = <<>>
  /\ cursor = -1
  /\ stage = "parsed"
  /\ \E item \in GenItems, kind \in GenExpressions, a \in 0..MaxNum,
        b \in 0..MaxNum, body \in GenBodies :
       /\ kind \in {"variable", "call", "none"} => a = 0 /\ b = 0
       /\ ast = GenProgram(item, kind, a, b, body)
  /\ out = NoText
  /\ err = NoText
  /\ options = NoDump

NextGen == Translate

SpecGen == InitGen /\ [][NextGen]_vars

\* The number a sequence of decimal digits reads as.
RECURSIVE NumberOf(_)
NumberOf(digits) ==
  IF Len(digits) = 0 THEN 0
  ELSE 10 * NumberOf(SubSeq(digits, 1, Len(digits) - 1))
         + (CHOOSE d \in 0..9 : DigitChar[d + 1] = digits[Len(digits)])

\* The values a variable takes that starts at v and is incremented by one
\* while the test holds.
RECURSIVE Counted(_, _, _)
Counted(v, test, end) ==
  IF (test = " < " /\ v < end) \/ (test = " <= " /\ v <= end)
  THEN <<v>> \o Counted(v + 1, test, end)
  ELSE <<>>

\* The values the body runs for, read off the emitted loop header
\* `for (let NAME = START; NAME TEST END; NAME++) {` at depth 1, NAME and
\* START of the given lengths.
Visits(header, nameLen, startLen) ==
  Counted(NumberOf(SubSeq(header, 4 + nameLen, 3 + nameLen + startLen)),
          header[5 + 2 * nameLen + startLen],
          NumberOf(SubSeq(header, 6 + 2 * nameLen + startLen,
                          Len(header) - 2 - nameLen)))

\* C7: a for-loop over the range A..B lowers to
\* `for (let NAME = A; NAME < B; NAME++) {`, the lowered body and `}`, NAME
\* the item or `it`: the body runs for the integers from A up to B - 1 in
\* ascending order, for none when A >= B.
C7_RangeLoopIsHalfOpen ==
  (/\ stage = "translated"
   /\ MainIsLoop
   /\ TheFor.expression.type = "binary-operation"
   /\ TheFor.expression.data.operator = "Range") =>
    LET name == ItemName(TheFor.item)
        A == TheFor.expression.data.left.data
        B == TheFor.expression.data.right.data
    IN  /\ Len(MainLines) >= 2
        /\ MainLines[1] =
             <<"    ", "for (let ">> \o name \o <<" = ">> \o A \o <<"; ">>
               \o name \o <<" < ">> \o B \o <<"; ">> \o name \o <<"++) {">>
        /\ SubSeq(MainLines, 2, Len(MainLines) - 1) =
             translateBlock(TheFor.block, ast, 2)
        /\ MainLines[Len(MainLines)] = <<"    ", "}">>
        /\ Visits(MainLines[1], Len(name), Len(A)) =
             [k \in 1..(NumberOf(B) - NumberOf(A)) |-> NumberOf(A) + k - 1]

C7_Witness ==
  /\ stage = "translated"
  /\ MainIsLoop
  /\ TheFor.item = W_i
  /\ TheFor.expression.type = "binary-operation"
  /\ Visits(MainLines[1], 1, 1) = <<0, 1>>

(***************************************************************************)
(* The parser on token sequences: parse applied to `func main(): void {`,  *)
(* a body of at most MaxBody tokens, `}` and EOF, with or without a stray  *)
(* number before `func`, and to the sequences with no function at all.     *)
(***************************************************************************)

\* The most tokens in the body of the function.
MaxBody == 4

NumberToken == Token("Number", <<"1">>)

IdentifierToken == Token("Identifier", W_x)

FunctionHead ==
  <<T("Func"), Token("Identifier", W_main), T("LParen"), T("RParen"),
    T("Colon"), Token("Type", W_void), T("LBrace")>>

BodyTokens ==
  {NumberToken, IdentifierToken, T("Return"), T("Break"), T("Plus")}

TokenBodies == UNION { [1..n -> BodyTokens] : n \in 0..MaxBody }

ParseInputs ==
  { stray \o FunctionHead \o body \o <<T("RBrace"), T("EOF")>> :
      stray \in {<<>>, <<NumberToken>>}, body \in TokenBodies }
    \cup {<<T("EOF")>>, <<NumberToken, T("EOF")>>}

InitParse ==
  /\ src = NoText
  /\ tokens \in ParseInputs
  /\ cursor = -1
  /\ stage = "lexed"
  /\ ast = Null
  /\ out = NoText
  /\ err = NoText
  /\ options = NoDump

NextParse == Parse

SpecParse == InitParse /\ [][NextParse]_vars

\* The grammar on a body of these tokens.  A statement is `break`, or an
\* expression that begins with an identifier, or `return` and an
\* expression; an expression is operands (numbers, identifiers) separated
\* by `+`.  Reading the body token by token, the reader is at the start of
\* a statement ("statement"), after an operand ("operand": the expression
\* may go on or a statement may start) or owes an operand ("operator").
RECURSIVE BodyConforms(_, _)
BodyConforms(body, at) ==
  IF Len(body) = 0 THEN at # "operator"
  ELSE LET type == body[1].type
       IN  CASE at = "operator" ->
                  /\ type \in {"Number", "Identifier"}
                  /\ BodyConforms(Tail(body), "operand")
             [] at = "operand" /\ type = "Plus" ->
                  BodyConforms(Tail(body), "operator")
             [] OTHER ->
                  /\ type \in {"Identifier", "Return", "Break"}
                  /\ BodyConforms(Tail(body),
                       CASE type = "Identifier" -> "operand"
                         [] type = "Return" -> "operator"
                         [] type = "Break" -> "statement")

\* The token sequence is function declarations and nothing else: no
\* function, or the one function with a body of statements.
Conforms(ts) ==
  \/ ts = <<T("EOF")>>
  \/ /\ Len(ts) >= Len(FunctionHead) + 2
     /\ SubSeq(ts, 1, Len(FunctionHead)) = FunctionHead
     /\ SubSeq(ts, Len(ts) - 1, Len(ts)) = <<T("RBrace"), T("EOF")>>
     /\ BodyConforms(SubSeq(ts, Len(FunctionHead) + 1, Len(ts) - 2),
                     "statement")

\* C3: parse returns a Program only for a token sequence all of which
\* conforms to the grammar; on any other it raises an Error.
C3_ParsedOnlyIfConforms == stage = "parsed" => Conforms(tokens)


(***************************************************************************)
(* translate on programs with and without a function named main: a        *)
(* ParsedFile of at most MaxFuncs functions, each named foo, bar or main,   *)
(* with no parameter or one, with an empty body or one print.              *)
(***************************************************************************)

\* The most functions in a program the model draws.
MaxFuncs == 2

FuncNames == {W_foo, W_bar, W_main}

FuncParams == {<<>>, <<[name |-> W_x, type |-> "I32"]>>}

FuncBlocks ==
  {EmptyBlock,
   BlockOf(<<Statement("expression", CallOf(W_print, <<I32(1)>>))>>)}

InitMain ==
  /\ src = NoText
  /\ tokens = <<>>
  /\ cursor = -1
  /\ stage = "parsed"
  /\ \E n \in 0..MaxFuncs :
       \E names \in [1..n -> FuncNames], params \in [1..n -> FuncParams],
          blocks \in [1..n -> FuncBlocks] :
         ast = [funcs |->
                  [k \in 1..n |->
                     [name |-> names[k], params |-> params[k],
                      returns |-> "Void", block |-> blocks[k]]]]
  /\ out = NoText
  /\ err = NoText
  /\ options = NoDump

NextMain == Translate

SpecMain == InitMain /\ [][NextMain]_vars

\* The program declares a function named main that takes no argument.
HasZeroArgumentMain ==
  \E k \in 1..Len(ast.funcs) :
    ast.funcs[k].name = W_main /\ Len(ast.funcs[k].params) = 0

HasMain == \E k \in 1..Len(ast.funcs) : ast.funcs[k].name = W_main

\* The lines of the output that are the top-level statement `main();`.
MainInvocations ==
  {i \in 1..Len(Lines(out)) : Lines(out)[i] = <<"main();">>}

\* C11: when the program declares a zero-argument function named main, the
\* output has exactly one top-level `main();` and it is the last line, after
\* every function definition; when no function is named main it has none.
C11_MainInvokedIffDeclared ==
  stage = "translated" =>
    /\ HasZeroArgumentMain => MainInvocations = {Len(Lines(out))}
    /\ ~HasMain => MainInvocations = {}

C11_Witness ==
  /\ stage = "translated"
  /\ Len(ast.funcs) = 2
  /\ ast.funcs[1].name = W_main
  /\ Len(ast.funcs[1].params) = 0
  /\ ast.funcs[2].name = W_foo
  /\ MainInvocations = {Len(Lines(out))}
  /\ Len(Lines(out)) > 4


(***************************************************************************)
(* compile as start and the tests call it: the source file is read or     *)
(* cannot be read, the options are those of the command line (no flag,     *)
(* --lex, --ast) or are omitted, and start writes main.js when the text    *)
(* compile returned is not empty.                                          *)
(***************************************************************************)

\* console.error(`Could not read file ${srcFilename}`)
CouldNotRead == <<"Could not read file">>

CommandLineOptions ==
  {NoDump, CompilerOptions(TRUE, FALSE), CompilerOptions(FALSE, TRUE)}

\* Before the file is read, src stands for the text of the file.
InitCompile ==
  /\ src \in Sources
  /\ tokens = <<>>
  /\ cursor = -1
  /\ stage = "start"
  /\ ast = Null
  /\ out = NoText
  /\ err = NoText
  /\ options \in CommandLineOptions \cup {OptionsOmitted}

\* src = await fs.readFile(srcFilename, 'utf8'), or the catch: the message
\* is logged and compile returns ''.
ReadFile ==
  /\ stage = "start"
  /\ \/ /\ stage' = "source"
        /\ UNCHANGED <<src, err>>
     \/ /\ stage' = "returned"
        /\ src' = NoText
        /\ err' = CouldNotRead
  /\ UNCHANGED <<tokens, cursor, ast, out, options>>

\* start: if (result) { await fs.writeFile('main.js', result) }
Write ==
  /\ stage \in {"translated", "returned"}
  /\ stage' = IF out # NoText THEN "written" ELSE "finished"
  /\ UNCHANGED <<src, tokens, cursor, ast, out, err, options>>

NextCompile == ReadFile \/ Lex \/ Parse \/ Translate \/ Write

SpecCompile == InitCompile /\ [][NextCompile]_vars

\* compile has returned the given text.
Returned(text) ==
  stage \in {"returned", "translated", "written", "finished"} /\ out = text

\* An Error thrown by parse has ended the call of compile.
ParseRaised == stage = "failed" /\ options.given

\* C12: when the source file cannot be read, and when parse raises an
\* Error, compile returns the empty text and nothing is written.
C12_FailureYieldsEmptyText ==
  (err = CouldNotRead \/ ParseRaised) => Returned(NoText) /\ stage # "written"

\* C13: compile called without options on a readable, well-formed source (a
\* main that prints a string) returns the translated text: it neither
\* raises nor returns the empty text.
C13_CompilesWithoutOptions ==
  (~options.given /\ src = HelloProgram /\ stage \notin {"start", "source"})
    => /\ stage # "failed"
       /\ ~Returned(NoText)


(***************************************************************************)
(* The lexer on its own: lex applied to every text of at most MaxLen       *)
(* characters drawn from LexChars, which has a letter, a digit, white      *)
(* space, the characters that need a second one (`!`, `.`, `=`), the quote, *)
(* the comment mark and a character the lexer knows nothing of.            *)
(***************************************************************************)

\* The most characters in a text the model draws.
MaxLen == 3

LexChars == {"a", "1", " ", "\n", "!", ".", "=", "'", "#", "@"}

InitLex ==
  /\ \E n \in 0..MaxLen : src \in [1..n -> LexChars]
  /\ tokens = <<>>
  /\ cursor = -1
  /\ stage = "source"
  /\ ast = Null
  /\ out = NoText
  /\ err = NoText
  /\ options = NoDump

NextLex == Lex

SpecLex == InitLex /\ [][NextLex]_vars

\* C14: the token sequence lex returns holds exactly one EOF token, and it
\* is the last element, whatever the text.
C14_OneSentinelLast ==
  stage = "lexed" =>
    /\ Len(tokens) >= 1
    /\ tokens[Len(tokens)].type = "EOF"
    /\ \A i \in 1..(Len(tokens) - 1) : tokens[i].type # "EOF"

\* A text of unrecognised characters alone lexes to the one EOF token.
C14_Witness ==
  /\ stage = "lexed"
  /\ src = <<"@", "!", ".">>
  /\ tokens = <<T("EOF")>>

\* The iteration of lex's loop entered at index i, on the text src.
StepAt(i) == lexStep(src, i, <<>>)

\* The character the iteration entered at index i looks at, and the next.
Scanned(i) == CharAt(src, skipWhitespace(src, i))

Following(i) == CharAt(src, skipWhitespace(src, i) + 1)

\* C15: lex returns on every text, and in every iteration of its loop the
\* index ends beyond where the iteration began.  An unknown character, a
\* `!` not before `=` and a `.` not before `.` push no token and the scan
\* goes on at the next character; a string with no closing quote and a
\* comment with no line end are consumed to the end of the text.
C15_LexAdvancesAndNeverFails ==
  stage # "source" =>
    /\ stage = "lexed"
    /\ \A i \in 0..(Len(src) - 1) :
         /\ StepAt(i).i > i
         /\ (\/ Scanned(i) = "@"
             \/ Scanned(i) = "!" /\ Following(i) # "="
             \/ Scanned(i) = "." /\ Following(i) # ".") =>
              StepAt(i) = [i |-> skipWhitespace(src, i) + 1, result |-> <<>>]
         /\ (/\ Scanned(i) = "'"
             /\ \A j \in (skipWhitespace(src, i) + 1)..(Len(src) - 1) :
                  CharAt(src, j) # "'") =>
              /\ StepAt(i).i = Len(src) + 1
              /\ StepAt(i).result =
                   <<Token("String",
                           Slice(src, skipWhitespace(src, i) + 1, Len(src)))>>
         /\ (/\ Scanned(i) = "#"
             /\ \A j \in skipWhitespace(src, i)..(Len(src) - 1) :
                  CharAt(src, j) # "\n") =>
              StepAt(i) = [i |-> Len(src) + 1, result |-> <<>>]

C15_Witness ==
  /\ stage = "lexed"
  /\ src = <<"!", "'", "a">>
  /\ tokens = <<Token("String", <<"a">>), T("EOF")>>


(***************************************************************************)
(* TokenList on its own: a list of at most MaxList tokens that ends with   *)
(* EOF, as lex builds it, and any sequence of calls of pop and peek.       *)
(* stage names the last call ("created" after the constructor) and ast     *)
(* records it: the cursor before the call, the argument of peek, the       *)
(* token returned.                                                         *)
(***************************************************************************)

\* The most tokens in a list the model draws.
MaxList == 3

\* The largest argument of peek the model draws.
MaxPos == 3

ListTokens == {Token("Identifier", W_x), Token("Number", <<"1">>)}

InitTokenList ==
  /\ src = NoText
  /\ \E n \in 0..(MaxList - 1) :
       \E ts \in [1..n -> ListTokens] : tokens = ts \o <<T("EOF")>>
  /\ cursor = -1
  /\ stage = "created"
  /\ ast = Null
  /\ out = NoText
  /\ err = NoText
  /\ options = NoDump

\* tokenList.pop()
Pop ==
  /\ stage \in {"created", "popped", "peeked"}
  /\ cursor' = pop(tokens, cursor).cur
  /\ ast' = [before |-> cursor, pos |-> 0, token |-> pop(tokens, cursor).tok]
  /\ stage' = "popped"
  /\ UNCHANGED <<src, tokens, out, err, options>>

\* tokenList.peek(pos)
Peek ==
  /\ stage \in {"created", "popped", "peeked"}
  /\ \E pos \in 1..MaxPos :
       /\ cursor' = peek(tokens, cursor, pos).cur
       /\ ast' = [before |-> cursor, pos |-> pos,
                  token |-> peek(tokens, cursor, pos).tok]
  /\ stage' = "peeked"
  /\ UNCHANGED <<src, tokens, out, err, options>>

NextTokenList == Pop \/ Peek

SpecTokenList == InitTokenList /\ [][NextTokenList]_vars

\* The final token of the list.
FinalToken == tokens[Len(tokens)]

\* C16: pop never leaves the cursor beyond the last index, and a pop made
\* once the final token has been returned returns the final token again.
C16_PopClampsAtEnd ==
  /\ cursor <= Len(tokens) - 1
  /\ (stage = "popped" /\ ast.before >= Len(tokens) - 1) =>
       ast.token = FinalToken

\* C17: peek(n) returns the token n positions ahead of the cursor when the
\* list has one there, and the final token when that index is past the end.
C17_PeekClampsAtEnd ==
  stage = "peeked" =>
    ast.token =
      IF ast.before + ast.pos <= Len(tokens) - 1
      THEN tokens[ast.before + ast.pos + 1]
      ELSE FinalToken

\* C18: a call of peek leaves the cursor where it was, and the pop that
\* follows returns what it would have returned without the peek.
C18_PeekDoesNotConsume ==
  stage = "peeked" =>
    /\ cursor = ast.before
    /\ pop(tokens, cursor).tok = pop(tokens, ast.before).tok


(***************************************************************************)
(* Function calls: parse applied to `func main(): void { foo( ARGS ) }`,    *)
(* ARGS every sequence of at most MaxArgs tokens drawn from a number, an   *)
(* identifier, `,`, `:` and `+`.                                           *)
(***************************************************************************)

\* The most tokens between the parentheses of the call.
MaxArgs == 4

ArgTokens == {NumberToken, IdentifierToken, T("Comma"), T("Colon"), T("Plus")}

CallHead == FunctionHead \o <<Token("Identifier", W_foo), T("LParen")>>

CallEnd == <<T("RParen"), T("RBrace"), T("EOF")>>

InitCall ==
  /\ src = NoText
  /\ \E n \in 0..MaxArgs :
       \E args \in [1..n -> ArgTokens] : tokens = CallHead \o args \o CallEnd
  /\ cursor = -1
  /\ stage = "lexed"
  /\ ast = Null
  /\ out = NoText
  /\ err = NoText
  /\ options = NoDump

NextCall == Parse

SpecCall == InitCall /\ [][NextCall]_vars

\* The tokens between the parentheses of the call.
CallArgs == SubSeq(tokens, Len(CallHead) + 1, Len(tokens) - Len(CallEnd))

\* The tokens are argument expressions separated by commas, an expression
\* being operands separated by `+`.  Reading token by token, the reader is
\* at the start of the list ("start"), after an operand ("operand") or
\* owes an operand ("owed").
RECURSIVE ArgsConform(_, _)
ArgsConform(args, at) ==
  IF Len(args) = 0 THEN at # "owed"
  ELSE IF at = "operand"
    THEN /\ args[1].type \in {"Comma", "Plus"}
         /\ ArgsConform(Tail(args), "owed")
  ELSE /\ args[1].type \in {"Number", "Identifier"}
       /\ ArgsConform(Tail(args), "operand")

\* Some argument expression is followed by a token that is neither `,` nor
\* `)` (nor continues the expression).
ArgumentThenOtherToken ==
  \E k \in 1..(Len(CallArgs) - 1) :
    /\ ArgsConform(SubSeq(CallArgs, 1, k), "start")
    /\ CallArgs[k + 1].type \notin {"Comma", "Plus"}

\* C19: when the token after an argument expression is neither `,` nor `)`,
\* parse raises an Error.
C19_ArgumentsNeedCommas ==
  (stage # "lexed" /\ ArgumentThenOtherToken) => stage = "failed"


(***************************************************************************)
(* Array literals: parseArray applied to `[ ITEMS ] x`, ITEMS every        *)
(* sequence of at most MaxItems tokens drawn from a number, an identifier  *)
(* and `,`.                                                                *)
(***************************************************************************)

\* The most tokens between the brackets of the array literal.
MaxItems == 4

ItemTokens == {NumberToken, IdentifierToken, T("Comma")}

\* The token that follows the closing bracket.
AfterArray == T("Let")

InitArray ==
  /\ src = NoText
  /\ \E n \in 0..MaxItems :
       \E items \in [1..n -> ItemTokens] :
         tokens = <<T("LBracket")>> \o items
                    \o <<T("RBracket"), AfterArray, T("EOF")>>
  /\ cursor = -1
  /\ stage = "lexed"
  /\ ast = Null
  /\ out = NoText
  /\ err = NoText
  /\ options = NoDump

\* result.data = parseArray(tokenList)
ParseArray ==
  /\ stage = "lexed"
  /\ LET r == parseArray(tokens, cursor)
     IN  /\ stage' = IF r.ok THEN "array" ELSE "failed"
         /\ cursor' = r.cur
         /\ ast' = r.val
         /\ err' = r.err
  /\ UNCHANGED <<src, tokens, out, options>>

NextArray == ParseArray

SpecArray == InitArray /\ [][NextArray]_vars

\* C20: once parseArray has returned, the next token the cursor yields is
\* the token that follows the closing bracket, for the empty literal too.
C20_ArrayConsumesClosingBracket ==
  stage = "array" => pop(tokens, cursor).tok = AfterArray


(***************************************************************************)
(* Types: lex and parse applied to                                         *)
(* `func main(x: T1): T2 { let x: T3 = 1 }`, T1, T2 and T3 each one of the  *)
(* four type keywords of the lexer.                                        *)
(***************************************************************************)

TypeWords == {W_string, W_i32, W_bool, W_void}

TypeSource(t1, t2, t3) ==
  W_func \o SP \o W_main \o <<"(">> \o W_x \o <<":", " ">> \o t1
    \o <<")", ":", " ">> \o t2 \o <<" ", "{", " ">> \o W_let \o SP \o W_x
    \o <<":", " ">> \o t3 \o <<" ", "=", " ">> \o Num(1) \o <<" ", "}", "\n">>

InitType ==
  /\ \E t1 \in TypeWords, t2 \in TypeWords, t3 \in TypeWords :
       src = TypeSource(t1, t2, t3)
  /\ tokens = <<>>
  /\ cursor = -1
  /\ stage = "source"
  /\ ast = Null
  /\ out = NoText
  /\ err = NoText
  /\ options = NoDump

NextType == Lex \/ Parse

SpecType == InitType /\ [][NextType]_vars

\* The data type a type keyword names.
OwnType(word) ==
  CASE word = W_string -> "String"
    [] word = W_i32 -> "I32"
    [] word = W_bool -> "Bool"
    [] word = W_void -> "Void"

\* The values of the three Type tokens of the source: of the parameter, of
\* the return type, of the variable.
ParameterWord == tokens[6].value

ReturnWord == tokens[9].value

VariableWord == tokens[14].value

\* C21: the type parsed after a colon is the data type its keyword names:
\* String for string, I32 for i32, Bool for bool, Void for void.
C21_TypeKeywordsKeepTheirType ==
  stage \notin {"source", "lexed"} =>
    /\ stage = "parsed"
    /\ ast.funcs[1].params[1].type = OwnType(ParameterWord)
    /\ ast.funcs[1].returns = OwnType(ReturnWord)
    /\ ast.funcs[1].block.variables[1].type = OwnType(VariableWord)


(***************************************************************************)
(* The parser and the EOF sentinel: parse applied to                       *)
(* `func main(): void {` followed by every sequence of at most MaxTail      *)
(* tokens drawn from a number, an identifier, `break`, `+` and `}`, and     *)
(* then EOF: the token lists lex returns for such texts, the function      *)
(* closed or not.                                                          *)
(***************************************************************************)

\* The most tokens between `{` and EOF.
MaxTail == 4

TailTokens ==
  {NumberToken, IdentifierToken, T("Break"), T("Plus"), T("RBrace")}

InitSentinel ==
  /\ src = NoText
  /\ \E n \in 0..MaxTail :
       \E tail \in [1..n -> TailTokens] :
         tokens = FunctionHead \o tail \o <<T("EOF")>>
  /\ cursor = -1
  /\ stage = "lexed"
  /\ ast = Null
  /\ out = NoText
  /\ err = NoText
  /\ options = NoDump

NextSentinel == Parse

SpecSentinel == InitSentinel /\ [][NextSentinel]_vars

\* C22: parse ends, returning a Program or raising an Error of its own,
\* and reads no token beyond the EOF sentinel: no pop has moved the cursor
\* past the last index, and no read has yielded undefined (whose `.type`
\* the engine refuses with a TypeError).
C22_ParseStaysWithinSentinel ==
  stage # "lexed" =>
    /\ stage \in {"parsed", "failed"}
    /\ cursor <= Len(tokens) - 1
    /\ err # <<"TypeError">>

====
